---- MODULE Spec2Model ----
(***************************************************************************)
(* ComfyData schema editor: the editor state (schema_name + field tree),   *)
(* the nested-row helpers (getFieldByPath, getFieldsListAtPath,            *)
(* flattenRows), the state <-> document codec (buildDocFromState,          *)
(* docToState), the reference graph (deriveGraphFromState) and the mouse   *)
(* gestures of the editor node.                                            *)
(*                                                                         *)
(* Representation                                                          *)
(*  - A JavaScript string that the code trims, splits or joins (field      *)
(*    names, values_csv, ref targets, schema names) is a sequence of       *)
(*    one-character strings, so that trim/split/join are computed.         *)
(*  - A type tag (f.type, a bare type string of a document) is an atomic   *)
(*    TLA+ string: the code only compares it.                              *)
(*  - A field object is a record whose DOMAIN is the set of properties    *)
(*    the object has: `delete f.ref` removes "ref" from the domain.  Its   *)
(*    "id" stands for the identity of the JavaScript object.               *)
(*  - A JavaScript object used as a mapping (doc.schema.fields) is the     *)
(*    sequence of its entries in Object.entries order.                     *)
(***************************************************************************)
EXTENDS Integers, Sequences, FiniteSets, TLC

\* ------------------------------------------------------------------------
\* JavaScript values and strings
\* ------------------------------------------------------------------------

Null == [null |-> TRUE]

Has(f, k) == k \in DOMAIN f

Del(f, k) == [j \in DOMAIN f \ {k} |-> f[j]]

Put(f, k, v) == [j \in DOMAIN f \cup {k} |-> IF j = k THEN v ELSE f[j]]

RECURSIVE TrimLeft(_)
TrimLeft(s) ==
  IF s # <<>> /\ Head(s) = " " THEN TrimLeft(Tail(s)) ELSE s

RECURSIVE TrimRight(_)
TrimRight(s) ==
  IF s # <<>> /\ s[Len(s)] = " " THEN TrimRight(SubSeq(s, 1, Len(s) - 1)) ELSE s

\* String.prototype.trim
Trim(s) == TrimRight(TrimLeft(s))

\* String.prototype.split on a set of one-character separators
RECURSIVE SplitOn(_, _, _)
SplitOn(s, seps, cur) ==
  IF s = <<>> THEN <<cur>>
  ELSE IF Head(s) \in seps THEN <<cur>> \o SplitOn(Tail(s), seps, <<>>)
  ELSE SplitOn(Tail(s), seps, Append(cur, Head(s)))

\* Array.prototype.join
RECURSIVE Join(_, _)
Join(list, sep) ==
  IF list = <<>> THEN <<>>
  ELSE IF Len(list) = 1 THEN list[1]
  ELSE list[1] \o sep \o Join(Tail(list), sep)

RECURSIVE MapTrim(_)
MapTrim(list) ==
  IF list = <<>> THEN <<>> ELSE <<Trim(Head(list))>> \o MapTrim(Tail(list))

\* Array.prototype.filter(Boolean) on strings: drops the empty ones
RECURSIVE FilterNonEmpty(_)
FilterNonEmpty(list) ==
  IF list = <<>> THEN <<>>
  ELSE IF Head(list) = <<>> THEN FilterNonEmpty(Tail(list))
  ELSE <<Head(list)>> \o FilterNonEmpty(Tail(list))

Digits == {"0", "1", "2", "3", "4", "5", "6", "7", "8", "9"}

DigitVal(c) == CHOOSE n \in 0..9 : <<"0", "1", "2", "3", "4", "5", "6", "7", "8", "9">>[n + 1] = c

\* An "integer index" property key: JavaScript lists such keys first, in
\* ascending numeric order, whatever the insertion order.
IsArrayIndex(k) ==
  /\ k # <<>>
  /\ \A i \in 1..Len(k) : k[i] \in Digits
  /\ (Len(k) > 1 => k[1] # "0")

RECURSIVE KeyNum(_)
KeyNum(k) ==
  IF k = <<>> THEN 0 ELSE 10 * KeyNum(SubSeq(k, 1, Len(k) - 1)) + DigitVal(k[Len(k)])

\* obj[k] = v on a plain object, kept in Object.entries order
ObjSet(obj, k, v) ==
  IF \E i \in 1..Len(obj) : obj[i].k = k
  THEN [i \in 1..Len(obj) |-> IF obj[i].k = k THEN [k |-> k, v |-> v] ELSE obj[i]]
  ELSE IF IsArrayIndex(k)
  THEN LET n == Cardinality({i \in 1..Len(obj) :
                      IsArrayIndex(obj[i].k) /\ KeyNum(obj[i].k) < KeyNum(k)})
       IN SubSeq(obj, 1, n) \o <<[k |-> k, v |-> v]>> \o SubSeq(obj, n + 1, Len(obj))
  ELSE Append(obj, [k |-> k, v |-> v])

\* ------------------------------------------------------------------------
\* constants.js
\* ------------------------------------------------------------------------

PRIMITIVE_TYPES == {"uuid", "int", "str", "decimal"}

FIELD_TYPES == <<"uuid", "int", "str", "decimal", "single-select", "object", "ref">>

\* ------------------------------------------------------------------------
\* state.js
\* ------------------------------------------------------------------------

defaultState ==
  [schema_name |-> <<>>, fields |-> <<>>, scroll_row |-> 0, validation |-> Null]

\* ensureFieldShape(f) for a field object f.  In the model name and type are
\* always strings and required is always a boolean when present, so only the
\* property bookkeeping remains; one operator per step of the function.
EnsureValuesCsv(f) ==
  IF f.type = "single-select" /\ ~Has(f, "values_csv") THEN Put(f, "values_csv", <<>>) ELSE f

EnsureExpanded(f) == IF Has(f, "expanded") THEN f ELSE Put(f, "expanded", FALSE)

EnsureFields(f) ==
  IF f.type = "object"
  THEN EnsureExpanded(IF Has(f, "fields") THEN f ELSE Put(f, "fields", <<>>))
  ELSE Del(Del(f, "fields"), "expanded")

EnsureRef(f) ==
  IF f.type = "ref"
  THEN IF Has(f, "ref") THEN f ELSE Put(f, "ref", <<>>)
  ELSE Del(f, "ref")

EnsureRequired(f) == IF Has(f, "required") THEN f ELSE Put(f, "required", FALSE)

ensureFieldShape(f) == EnsureRequired(EnsureRef(EnsureFields(EnsureValuesCsv(f))))

\* ------------------------------------------------------------------------
\* yamlish.js: state -> document
\* ------------------------------------------------------------------------

JsString(s) == [js |-> "string", s |-> s]

\* csv.split(",").map(trim).filter(Boolean), or [] when the trimmed csv is empty
CsvToValues(values_csv) ==
  LET csv == Trim(values_csv)
  IN IF csv # <<>> THEN FilterNonEmpty(MapTrim(SplitOn(csv, {","}, <<>>))) ELSE <<>>

RECURSIVE buildFieldsDocFromList(_)
RECURSIVE BuildFieldsLoop(_, _, _)

\* Mutant: the name is tested and used as it is, not trimmed
BuildFieldsLoop_UntrimmedName(fieldsList, i, fields) ==
  IF i > Len(fieldsList) THEN fields
  ELSE LET f == ensureFieldShape(fieldsList[i])
           name == f.name
       IN IF name = <<>> THEN BuildFieldsLoop(fieldsList, i + 1, fields)
          ELSE IF f.type \in PRIMITIVE_TYPES
          THEN BuildFieldsLoop(fieldsList, i + 1, ObjSet(fields, name, JsString(f.type)))
          ELSE IF f.type = "single-select"
          THEN BuildFieldsLoop(fieldsList, i + 1,
                 ObjSet(fields, name,
                        [js |-> "object", type |-> "single-select",
                         values |-> CsvToValues(f.values_csv)]))
          ELSE IF f.type = "object"
          THEN BuildFieldsLoop(fieldsList, i + 1,
                 ObjSet(fields, name,
                        [js |-> "object", type |-> "object",
                         fields |-> buildFieldsDocFromList(f.fields)]))
          ELSE BuildFieldsLoop(fieldsList, i + 1, fields)

BuildFieldsLoop(fieldsList, i, fields) ==
  IF i > Len(fieldsList) THEN fields
  ELSE LET f == ensureFieldShape(fieldsList[i])
           name == Trim(f.name)
       IN IF name = <<>> THEN BuildFieldsLoop(fieldsList, i + 1, fields)
          ELSE IF f.type \in PRIMITIVE_TYPES
          THEN BuildFieldsLoop(fieldsList, i + 1, ObjSet(fields, name, JsString(f.type)))
          ELSE IF f.type = "single-select"
          THEN BuildFieldsLoop(fieldsList, i + 1,
                 ObjSet(fields, name,
                        [js |-> "object", type |-> "single-select",
                         values |-> CsvToValues(f.values_csv)]))
          ELSE IF f.type = "object"
          THEN BuildFieldsLoop(fieldsList, i + 1,
                 ObjSet(fields, name,
                        [js |-> "object", type |-> "object",
                         fields |-> buildFieldsDocFromList(f.fields)]))
          ELSE BuildFieldsLoop(fieldsList, i + 1, fields)

buildFieldsDocFromList(fieldsList) == BuildFieldsLoop(fieldsList, 1, <<>>)

\* Mutant: a schema without a name is given one
buildDocFromState_NamesUnnamed(state) ==
  [schema |-> [name |-> IF Trim(state.schema_name) = <<>> THEN <<"s">>
                        ELSE Trim(state.schema_name),
               fields |-> buildFieldsDocFromList(state.fields)]]

buildDocFromState(state) ==
  [schema |-> [name |-> Trim(state.schema_name),
               fields |-> buildFieldsDocFromList(state.fields)]]

\* ------------------------------------------------------------------------
\* yamlish.js: document -> state
\* ------------------------------------------------------------------------

\* A field object fresh from a literal; id 0 until the caller places it.
NewField(name, type) == [id |-> 0, name |-> name, type |-> type]

RECURSIVE docFieldsToStateList(_)
RECURSIVE DocFieldsLoop(_, _, _)

\* Mutant: a decoded object is expanded
DocFieldsLoop_ExpandsObjects(entries, i, out) ==
  IF i > Len(entries) THEN out
  ELSE LET k == entries[i].k
           v == entries[i].v
       IN IF v.js = "string"
          THEN DocFieldsLoop(entries, i + 1,
                 Append(out, ensureFieldShape(NewField(k, v.s))))
          ELSE IF v.js # "object" THEN DocFieldsLoop(entries, i + 1, out)
          ELSE IF Has(v, "type") /\ v.type = "single-select"
          THEN DocFieldsLoop(entries, i + 1,
                 Append(out, ensureFieldShape(
                   Put(NewField(k, "single-select"), "values_csv",
                       Join(IF Has(v, "values") THEN v.values ELSE <<>>, <<",", " ">>)))))
          ELSE IF Has(v, "type") /\ v.type = "object"
          THEN DocFieldsLoop(entries, i + 1,
                 Append(out, ensureFieldShape(
                   Put(Put(NewField(k, "object"), "fields",
                           docFieldsToStateList(IF Has(v, "fields") THEN v.fields ELSE <<>>)),
                       "expanded", TRUE))))
          ELSE DocFieldsLoop(entries, i + 1, out)

\* Mutant: a value that is neither a string nor an object ends the loop
DocFieldsLoop_StopsAtMalformed(entries, i, out) ==
  IF i > Len(entries) THEN out
  ELSE LET k == entries[i].k
           v == entries[i].v
       IN IF v.js = "string"
          THEN DocFieldsLoop(entries, i + 1,
                 Append(out, ensureFieldShape(NewField(k, v.s))))
          ELSE IF v.js # "object" THEN out
          ELSE IF Has(v, "type") /\ v.type = "single-select"
          THEN DocFieldsLoop(entries, i + 1,
                 Append(out, ensureFieldShape(
                   Put(NewField(k, "single-select"), "values_csv",
                       Join(IF Has(v, "values") THEN v.values ELSE <<>>, <<",", " ">>)))))
          ELSE IF Has(v, "type") /\ v.type = "object"
          THEN DocFieldsLoop(entries, i + 1,
                 Append(out, ensureFieldShape(
                   Put(Put(NewField(k, "object"), "fields",
                           docFieldsToStateList(IF Has(v, "fields") THEN v.fields ELSE <<>>)),
                       "expanded", FALSE))))
          ELSE DocFieldsLoop(entries, i + 1, out)

DocFieldsLoop(entries, i, out) ==
  IF i > Len(entries) THEN out
  ELSE LET k == entries[i].k
           v == entries[i].v
       IN IF v.js = "string"
          THEN DocFieldsLoop(entries, i + 1,
                 Append(out, ensureFieldShape(NewField(k, v.s))))
          ELSE IF v.js # "object" THEN DocFieldsLoop(entries, i + 1, out)
          ELSE IF Has(v, "type") /\ v.type = "single-select"
          THEN DocFieldsLoop(entries, i + 1,
                 Append(out, ensureFieldShape(
                   Put(NewField(k, "single-select"), "values_csv",
                       Join(IF Has(v, "values") THEN v.values ELSE <<>>, <<",", " ">>)))))
          ELSE IF Has(v, "type") /\ v.type = "object"
          THEN DocFieldsLoop(entries, i + 1,
                 Append(out, ensureFieldShape(
                   Put(Put(NewField(k, "object"), "fields",
                           docFieldsToStateList(IF Has(v, "fields") THEN v.fields ELSE <<>>)),
                       "expanded", FALSE))))
          ELSE DocFieldsLoop(entries, i + 1, out)

docFieldsToStateList(fieldsObj) == DocFieldsLoop(fieldsObj, 1, <<>>)

\* Mutant: the name of the schema is not taken over
docToState_NoName(doc) ==
  LET hasSchema == Has(doc, "schema")
  IN [defaultState EXCEPT
        !.fields = docFieldsToStateList(
                     IF hasSchema /\ Has(doc.schema, "fields") THEN doc.schema.fields ELSE <<>>)]

docToState(doc) ==
  LET hasSchema == Has(doc, "schema")
  IN [defaultState EXCEPT
        !.schema_name = IF hasSchema /\ Has(doc.schema, "name") THEN doc.schema.name ELSE <<>>,
        !.fields = docFieldsToStateList(
                     IF hasSchema /\ Has(doc.schema, "fields") THEN doc.schema.fields ELSE <<>>)]

\* " ".repeat(n)
RECURSIVE Spaces(_)
Spaces(n) == IF n <= 0 THEN <<>> ELSE <<" ">> \o Spaces(n - 1)

\* `${v.type}`; a type is one token of the line
TypeText(v) == IF Has(v, "type") THEN v.type ELSE "undefined"

\* The lines `- ${item}` of a values list
ValueLines(vals, indent) ==
  [n \in 1..Len(vals) |-> Spaces(indent) \o <<"-", " ">> \o vals[n]]

RECURSIVE dumpFields(_, _, _)
RECURSIVE DumpFieldsLoop(_, _, _, _)

\* Mutant: a nested block is indented by two, not four
DumpFieldsLoop_ShallowNesting(entries, i, indent, lines) ==
  IF i > Len(entries) THEN lines
  ELSE LET k == entries[i].k
           v == entries[i].v
       IN IF v.js = "string"
          THEN DumpFieldsLoop(entries, i + 1, indent,
                 Append(lines, Spaces(indent) \o k \o <<":", " ", v.s>>))
          ELSE IF v.js # "object" THEN DumpFieldsLoop(entries, i + 1, indent, lines)
          ELSE LET head == lines \o <<Spaces(indent) \o k \o <<":">>,
                                      Spaces(indent + 2) \o <<"type", ":", " ", TypeText(v)>>>>
               IN IF TypeText(v) = "single-select"
                  THEN DumpFieldsLoop(entries, i + 1, indent,
                         Append(head, Spaces(indent + 2) \o <<"values", ":">>)
                           \o ValueLines(IF Has(v, "values") THEN v.values ELSE <<>>, indent + 4))
                  ELSE IF TypeText(v) = "object"
                  THEN DumpFieldsLoop(entries, i + 1, indent,
                         dumpFields(IF Has(v, "fields") THEN v.fields ELSE <<>>, indent + 2,
                                    Append(head, Spaces(indent + 2) \o <<"fields", ":">>)))
                  ELSE DumpFieldsLoop(entries, i + 1, indent, head)

\* The loop of dumpFields over Object.entries(obj)
DumpFieldsLoop(entries, i, indent, lines) ==
  IF i > Len(entries) THEN lines
  ELSE LET k == entries[i].k
           v == entries[i].v
       IN IF v.js = "string"
          THEN DumpFieldsLoop(entries, i + 1, indent,
                 Append(lines, Spaces(indent) \o k \o <<":", " ", v.s>>))
          ELSE IF v.js # "object" THEN DumpFieldsLoop(entries, i + 1, indent, lines)
          ELSE LET head == lines \o <<Spaces(indent) \o k \o <<":">>,
                                      Spaces(indent + 2) \o <<"type", ":", " ", TypeText(v)>>>>
               IN IF TypeText(v) = "single-select"
                  THEN DumpFieldsLoop(entries, i + 1, indent,
                         Append(head, Spaces(indent + 2) \o <<"values", ":">>)
                           \o ValueLines(IF Has(v, "values") THEN v.values ELSE <<>>, indent + 4))
                  ELSE IF TypeText(v) = "object"
                  THEN DumpFieldsLoop(entries, i + 1, indent,
                         dumpFields(IF Has(v, "fields") THEN v.fields ELSE <<>>, indent + 4,
                                    Append(head, Spaces(indent + 2) \o <<"fields", ":">>)))
                  ELSE DumpFieldsLoop(entries, i + 1, indent, head)

\* dumpFields(obj, indent), on the lines written so far
dumpFields(obj, indent, lines) == DumpFieldsLoop(obj, 1, indent, lines)

\* The lines dumpYamlish joins with "\n"
dumpYamlish(doc) ==
  LET hasSchema == Has(doc, "schema")
      schemaName == IF hasSchema /\ Has(doc.schema, "name") THEN doc.schema.name ELSE <<>>
      fields == IF hasSchema /\ Has(doc.schema, "fields") THEN doc.schema.fields ELSE <<>>
  IN dumpFields(fields, 4,
                <<<<"schema", ":">>,
                  <<" ", " ", "name", ":", " ">> \o schemaName,
                  <<" ", " ", "fields", ":">>>>)

\* ------------------------------------------------------------------------
\* API helpers: safeGetJson, safePostJson
\* ------------------------------------------------------------------------

JsUndefined == [js |-> "undefined"]

JsNull == [js |-> "null"]

JsBool(b) == [js |-> "boolean", b |-> b]

JsNumber(n) == [js |-> "number", n |-> n]

\* A value in a condition
Truthy(v) ==
  IF v.js \in {"undefined", "null"} THEN FALSE
  ELSE IF v.js = "boolean" THEN v.b
  ELSE IF v.js = "number" THEN v.n # 0
  ELSE IF v.js = "string" THEN v.s # ""
  ELSE TRUE

\* body?.k
OptProp(body, k) == IF body.js = "object" /\ Has(body, k) THEN body[k] ELSE JsUndefined

\* await res.json() in a try: null when the body is no JSON
parseJsonSafely(response) == IF response.body.js = "invalid" THEN JsNull ELSE response.body

\* normalizeError(err): always a string
normalizeError(err) ==
  IF ~Truthy(err) THEN JsString("Unknown error")
  ELSE IF err.js = "string" THEN err
  ELSE IF Truthy(OptProp(err, "message")) THEN JsString(OptProp(err, "message").s)
  ELSE JsString("JSON.stringify(err)")

\* What the two functions do with a response
Normalized(response) ==
  LET body == parseJsonSafely(response)
  IN IF ~(response.status >= 200 /\ response.status <= 299)
     THEN [js |-> "object", ok |-> JsBool(FALSE),
           error |-> IF Truthy(OptProp(body, "error")) THEN OptProp(body, "error")
                     ELSE IF Truthy(OptProp(body, "message")) THEN OptProp(body, "message")
                     ELSE JsString("status statusText")]
     ELSE IF Truthy(body) /\ body.js = "object" /\ Has(body, "ok") THEN body
     ELSE [js |-> "object", ok |-> JsBool(TRUE), data |-> body]

\* safeGetJson(path), settled: fetch rejected with err, or gave a response
safeGetJson(fetched) ==
  IF fetched.net = "rejected"
  THEN [js |-> "object", ok |-> JsBool(FALSE), error |-> normalizeError(fetched.err)]
  ELSE Normalized(fetched.response)

\* safePostJson(path, payload), settled: JSON.stringify(payload) threw, fetch
\* rejected with err, or gave a response
safePostJson(fetched, payload) ==
  IF payload = "cyclic"
  THEN [js |-> "object", ok |-> JsBool(FALSE),
        error |-> normalizeError([js |-> "object", message |-> JsString("cyclic object value")])]
  ELSE IF fetched.net = "rejected"
  THEN [js |-> "object", ok |-> JsBool(FALSE), error |-> normalizeError(fetched.err)]
  ELSE Normalized(fetched.response)

\* ------------------------------------------------------------------------
\* nested_rows.js
\* ------------------------------------------------------------------------

RECURSIVE IntToStr(_)
IntToStr(n) ==
  IF n < 10 THEN <<(<<"0", "1", "2", "3", "4", "5", "6", "7", "8", "9">>)[n + 1]>>
  ELSE IntToStr(n \div 10) \o IntToStr(n % 10)

RECURSIVE MapIntToStr(_)
MapIntToStr(path) ==
  IF path = <<>> THEN <<>> ELSE <<IntToStr(Head(path))>> \o MapIntToStr(Tail(path))

\* (path || []).join(".")
pathKey(path) == Join(MapIntToStr(path), <<".">>)

\* The value getFieldByPath returns.  Paths hold 0-based indices, as in the
\* source; list[idx] of the source is list[idx + 1] here.
\* Mutant: stops at a non-object in mid-path and returns it
RECURSIVE FieldByPathLoop_StopsEarly(_, _, _)
FieldByPathLoop_StopsEarly(list, path, i) ==
  LET idx == path[i]
  IN IF idx < 0 \/ idx >= Len(list) THEN Null
     ELSE LET cur == ensureFieldShape(list[idx + 1])
          IN IF i = Len(path) THEN cur
             ELSE IF cur.type # "object" THEN cur
             ELSE FieldByPathLoop_StopsEarly(cur.fields, path, i + 1)

RECURSIVE FieldByPathLoop(_, _, _)
FieldByPathLoop(list, path, i) ==
  LET idx == path[i]
  IN IF idx < 0 \/ idx >= Len(list) THEN Null
     ELSE LET cur == ensureFieldShape(list[idx + 1])
          IN IF i = Len(path) THEN cur
             ELSE IF cur.type # "object" THEN Null
             ELSE FieldByPathLoop(cur.fields, path, i + 1)

getFieldByPath(state, path) ==
  IF path = <<>> THEN Null ELSE FieldByPathLoop(state.fields, path, 1)

\* What getFieldByPath leaves behind: ensureFieldShape mutates, in place,
\* every field object the walk visits.
RECURSIVE TouchByPathLoop(_, _, _)
TouchByPathLoop(list, path, i) ==
  LET idx == path[i]
  IN IF idx < 0 \/ idx >= Len(list) THEN list
     ELSE LET cur == ensureFieldShape(list[idx + 1])
          IN IF i = Len(path) \/ cur.type # "object"
             THEN [list EXCEPT ![idx + 1] = cur]
             ELSE [list EXCEPT ![idx + 1] =
                     [cur EXCEPT !.fields = TouchByPathLoop(cur.fields, path, i + 1)]]

TouchByPath(fields, path) ==
  IF path = <<>> THEN fields ELSE TouchByPathLoop(fields, path, 1)

\* The array getFieldsListAtPath returns, by its owner: "root" for
\* state.fields, the id of the object field whose .fields it is, or Null.
getFieldsListAtPath(state, parentPath) ==
  IF parentPath = <<>> THEN [owner |-> "root", list |-> state.fields]
  ELSE LET parent == getFieldByPath(state, parentPath)
       IN IF parent = Null THEN Null
          ELSE IF parent.type # "object" THEN Null
          ELSE [owner |-> "field", id |-> parent.id, list |-> parent.fields]

RECURSIVE flattenRows(_, _, _)
RECURSIVE FlattenLoop(_, _, _, _, _)

\* Mutant: descends into every object, expanded or not
FlattenLoop_IgnoresExpanded(list, depth, basePath, i, out) ==
  IF i >= Len(list) THEN out
  ELSE LET f == ensureFieldShape(list[i + 1])
           p == basePath \o <<i>>
           row == [kind |-> "field", path |-> p, depth |-> depth, field |-> f]
       IN IF f.type = "object"
          THEN FlattenLoop(list, depth, basePath, i + 1,
                 (Append(out, row) \o flattenRows(f.fields, depth + 1, p))
                    \o <<[kind |-> "add_child", parentPath |-> p, depth |-> depth + 1]>>)
          ELSE FlattenLoop(list, depth, basePath, i + 1, Append(out, row))

\* Mutant: the add_child row comes before the children of its object
FlattenLoop_AddChildFirst(list, depth, basePath, i, out) ==
  IF i >= Len(list) THEN out
  ELSE LET f == ensureFieldShape(list[i + 1])
           p == basePath \o <<i>>
           row == [kind |-> "field", path |-> p, depth |-> depth, field |-> f]
       IN IF f.type = "object" /\ f.expanded
          THEN FlattenLoop(list, depth, basePath, i + 1,
                 (Append(out, row)
                    \o <<[kind |-> "add_child", parentPath |-> p, depth |-> depth + 1]>>)
                    \o flattenRows(f.fields, depth + 1, p))
          ELSE FlattenLoop(list, depth, basePath, i + 1, Append(out, row))

\* Mutant: the paths count the rows of a list from one
FlattenLoop_OneBased(list, depth, basePath, i, out) ==
  IF i >= Len(list) THEN out
  ELSE LET f == ensureFieldShape(list[i + 1])
           p == basePath \o <<i + 1>>
           row == [kind |-> "field", path |-> p, depth |-> depth, field |-> f]
       IN IF f.type = "object" /\ f.expanded
          THEN FlattenLoop(list, depth, basePath, i + 1,
                 (Append(out, row) \o flattenRows(f.fields, depth + 1, p))
                    \o <<[kind |-> "add_child", parentPath |-> p, depth |-> depth + 1]>>)
          ELSE FlattenLoop(list, depth, basePath, i + 1, Append(out, row))

FlattenLoop(list, depth, basePath, i, out) ==
  IF i >= Len(list) THEN out
  ELSE LET f == ensureFieldShape(list[i + 1])
           p == basePath \o <<i>>
           row == [kind |-> "field", path |-> p, depth |-> depth, field |-> f]
       IN IF f.type = "object" /\ f.expanded
          THEN FlattenLoop(list, depth, basePath, i + 1,
                 (Append(out, row) \o flattenRows(f.fields, depth + 1, p))
                    \o <<[kind |-> "add_child", parentPath |-> p, depth |-> depth + 1]>>)
          ELSE FlattenLoop(list, depth, basePath, i + 1, Append(out, row))

flattenRows(fields, depth, basePath) == FlattenLoop(fields, depth, basePath, 0, <<>>)

\* What flattenRows leaves behind: ensureFieldShape on every field it visits.
RECURSIVE TouchFlatten(_)
TouchFlatten(list) ==
  [i \in 1..Len(list) |->
     LET f == ensureFieldShape(list[i])
     IN IF f.type = "object" /\ f.expanded
        THEN [f EXCEPT !.fields = TouchFlatten(f.fields)]
        ELSE f]

newPlaceholderField == ensureFieldShape(NewField(<<>>, "str"))

\* ------------------------------------------------------------------------
\* comfydata_schema_editor.js: the reference graph
\* ------------------------------------------------------------------------

RootNodeId == [ns |-> "ROOT"]

\* `SCHEMA:${s}` or null
buildSchemaNodeId(schemaName) ==
  LET s == Trim(schemaName)
  IN IF s # <<>> THEN [ns |-> "SCHEMA", s |-> s] ELSE Null

RECURSIVE DeriveGraphLoop(_, _, _, _)
DeriveGraphLoop(flat, i, nodes, edges) ==
  IF i > Len(flat) THEN [nodes |-> nodes, edges |-> edges]
  ELSE LET row == flat[i]
       IN IF row.kind # "field" THEN DeriveGraphLoop(flat, i + 1, nodes, edges)
          ELSE IF Trim(row.field.name) = <<>> THEN DeriveGraphLoop(flat, i + 1, nodes, edges)
          ELSE IF row.field.type # "ref" THEN DeriveGraphLoop(flat, i + 1, nodes, edges)
          ELSE LET toId == buildSchemaNodeId(row.field.ref)
               IN IF toId = Null THEN DeriveGraphLoop(flat, i + 1, nodes, edges)
                  ELSE DeriveGraphLoop(flat, i + 1,
                         IF \E j \in 1..Len(nodes) : nodes[j].id = toId THEN nodes
                         ELSE Append(nodes, [id |-> toId, label |-> toId.s, kind |-> "schema"]),
                         Append(edges, [kind |-> "ref", fromPathKey |-> pathKey(row.path),
                                        toNodeId |-> toId]))

deriveGraphFromState(state) ==
  LET rootLabel == IF Trim(state.schema_name) # <<>> THEN Trim(state.schema_name)
                   ELSE <<"(", "u", "n", "n", "a", "m", "e", "d", ")">>
  IN DeriveGraphLoop(flattenRows(state.fields, 0, <<>>), 1,
                     <<[id |-> RootNodeId, label |-> rootLabel, kind |-> "root"]>>, <<>>)

\* ------------------------------------------------------------------------
\* Object identity
\* ------------------------------------------------------------------------

\* The smallest identity not in use
FreshId(used) ==
  CHOOSE n \in 1..(Cardinality(used) + 1) :
    n \notin used /\ \A m \in 1..(n - 1) : m \in used

\* Gives every field object of a freshly built tree its own identity.
RECURSIVE AssignIds(_, _)
AssignIds(list, used) ==
  IF list = <<>> THEN [out |-> <<>>, used |-> used]
  ELSE LET id == FreshId(used)
           n0 == Head(list)
           kids == IF Has(n0, "fields") THEN AssignIds(n0.fields, used \cup {id})
                   ELSE [out |-> <<>>, used |-> used \cup {id}]
           n1 == IF Has(n0, "fields") THEN [n0 EXCEPT !.id = id, !.fields = kids.out]
                 ELSE [n0 EXCEPT !.id = id]
           rest == AssignIds(Tail(list), kids.used)
       IN [out |-> <<n1>> \o rest.out, used |-> rest.used]

RECURSIVE IdsOf(_)
IdsOf(list) ==
  UNION {({list[i].id} \cup (IF Has(list[i], "fields") THEN IdsOf(list[i].fields) ELSE {}))
           : i \in 1..Len(list)}

RECURSIVE FindById(_, _)
FindById(list, id) ==
  IF list = <<>> THEN Null
  ELSE IF Head(list).id = id THEN Head(list)
  ELSE LET below == IF Has(Head(list), "fields") THEN FindById(Head(list).fields, id) ELSE Null
       IN IF below # Null THEN below ELSE FindById(Tail(list), id)

\* A write through a reference to a field object: the object keeps its place
\* in whatever tree holds it.
RECURSIVE ReplaceById(_, _)
ReplaceById(list, node) ==
  [i \in 1..Len(list) |->
     IF list[i].id = node.id THEN node
     ELSE IF Has(list[i], "fields")
     THEN [list[i] EXCEPT !.fields = ReplaceById(list[i].fields, node)]
     ELSE list[i]]

\* getState(node), on the state object the node holds
getState(s) ==
  [s EXCEPT !.fields = [i \in 1..Len(s.fields) |-> ensureFieldShape(s.fields[i])],
            !.scroll_row = IF s.scroll_row < 0 THEN 0 ELSE s.scroll_row,
            !.validation = IF @ = Null THEN Null
                           ELSE IF @.js # "object" THEN Null
                           ELSE IF Has(@, "errors") THEN @ ELSE Put(@, "errors", <<>>)]

\* Mutant: list.unshift(node), the new element comes first
PushAt_Front(s, l, node) ==
  IF l.owner = "root" THEN [s EXCEPT !.fields = <<node>> \o @]
  ELSE LET parent == FindById(s.fields, l.id)
       IN [s EXCEPT !.fields = ReplaceById(@, [parent EXCEPT !.fields = <<node>> \o @])]

\* list.push(node) on the array getFieldsListAtPath returned
PushAt(s, l, node) ==
  IF l.owner = "root" THEN [s EXCEPT !.fields = Append(@, node)]
  ELSE LET parent == FindById(s.fields, l.id)
       IN [s EXCEPT !.fields = ReplaceById(@, [parent EXCEPT !.fields = Append(@, node)])]

\* Mutant: removes the element after the one asked for
Splice_OffByOne(list, idx) ==
  [i \in 1..(Len(list) - (IF idx + 2 <= Len(list) THEN 1 ELSE 0)) |->
     IF i < idx + 2 THEN list[i] ELSE list[i + 1]]

\* Mutant: list.splice(idx), which removes the rest of the list as well
Splice_ToEnd(list, idx) == SubSeq(list, 1, idx)

\* list.splice(idx, 1)
Splice(list, idx) ==
  [i \in 1..(Len(list) - 1) |-> IF i < idx + 1 THEN list[i] ELSE list[i + 1]]

\* list.splice(idx, 1) on the array getFieldsListAtPath returned
SpliceAt(s, l, idx) ==
  IF l.owner = "root" THEN [s EXCEPT !.fields = Splice(@, idx)]
  ELSE LET parent == FindById(s.fields, l.id)
       IN [s EXCEPT !.fields = ReplaceById(@, [parent EXCEPT !.fields = Splice(@, idx)])]

\* ------------------------------------------------------------------------
\* Bounds and input sets
\* ------------------------------------------------------------------------

\* Most field objects in a tree
MaxNodes == 3

\* Longest path handed to getFieldByPath
MaxPathLen == 3

\* Most entries in a document handed to docToState
MaxDocEntries == 3

FnNames == {<<"a">>, <<>>}

FnRefTargets == {<<"b">>}

\* One csv with an empty part, a padded part and two parts equal without case
FnCsvs == {<<"x", ",", ",", " ", "X">>}

FnLeaves ==
  {[id |-> 0, name |-> n, type |-> "str", required |-> FALSE] : n \in FnNames}
  \cup {[id |-> 0, name |-> n, type |-> "single-select", required |-> FALSE, values_csv |-> c]
          : n \in FnNames, c \in FnCsvs}
  \cup {[id |-> 0, name |-> n, type |-> "ref", required |-> FALSE, ref |-> r]
          : n \in FnNames, r \in FnRefTargets}

RECURSIVE ForestsOfSize(_)
RECURSIVE TreesOfSize(_)

TreesOfSize(k) ==
  (IF k = 1 THEN FnLeaves ELSE {})
  \cup {[id |-> 0, name |-> n, type |-> "object", required |-> FALSE,
         fields |-> c, expanded |-> e]
          : n \in FnNames, c \in ForestsOfSize(k - 1), e \in BOOLEAN}

ForestsOfSize(n) ==
  IF n = 0 THEN {<<>>}
  ELSE UNION {{<<t>> \o r : t \in TreesOfSize(k), r \in ForestsOfSize(n - k)} : k \in 1..n}

FnStates ==
  {[defaultState EXCEPT !.schema_name = <<"a">>, !.fields = AssignIds(f, {}).out]
     : f \in UNION {ForestsOfSize(n) : n \in 0..MaxNodes}}

\* Names with nothing but white space in them, or with white space around
FnBlankNames == {<<>>, <<" ">>, <<" ", "a", " ">>}

\* Trees of one or two fields with such names: one field, two siblings, or
\* an object with one child
FnBlankForests ==
  LET leaf(n) == [id |-> 0, name |-> n, type |-> "str", required |-> FALSE]
  IN {<<leaf(n)>> : n \in FnBlankNames}
     \cup {<<leaf(n), leaf(m)>> : n, m \in FnBlankNames}
     \cup {<<[id |-> 0, name |-> n, type |-> "object", required |-> FALSE,
              fields |-> <<leaf(m)>>, expanded |-> FALSE]>> : n, m \in FnBlankNames}

FnBlankStates ==
  {[defaultState EXCEPT !.schema_name = n, !.fields = AssignIds(f, {}).out]
     : f \in FnBlankForests, n \in FnBlankNames}

\* The trees handed to getFieldByPath: names play no part in resolution
FnPathStates ==
  {s \in FnStates : \A id \in IdsOf(s.fields) : FindById(s.fields, id).name = <<"a">>}

FnPaths == UNION {[1..n -> -1..2] : n \in 0..MaxPathLen}

FnDocValues ==
  {JsString("int"),
   JsString("date"),
   [js |-> "null"],
   [js |-> "number", n |-> 1],
   [js |-> "object"],
   [js |-> "object", type |-> "list"],
   [js |-> "object", type |-> "single-select", values |-> <<<<"x">>, <<"y">>>>],
   [js |-> "object", type |-> "ref", ref |-> <<"b">>]}

FnDocKeys == {<<"a">>, <<"b">>, <<"c">>}

\* Mappings with n entries in all, nested ones included, as JSON.parse
\* yields them: no key twice in one mapping.
RECURSIVE DocMapsOfSize(_)
DocMapsOfSize(n) ==
  IF n = 0 THEN {<<>>}
  ELSE UNION {
         UNION {
           {ObjSet(r, k, v) :
              v \in (IF j = 1 THEN FnDocValues ELSE {})
                      \cup {[js |-> "object", type |-> "object", fields |-> m]
                              : m \in DocMapsOfSize(j - 1)},
              r \in {r0 \in DocMapsOfSize(n - j) : \A i \in 1..Len(r0) : r0[i].k # k}}
           : k \in FnDocKeys}
         : j \in 1..n}

\* { schema: { name: "", fields: {} } }
EmptyDoc == [schema |-> [name |-> <<>>, fields |-> <<>>]]

FnDocs ==
  {[schema |-> [name |-> <<"a">>, fields |-> m]]
     : m \in UNION {DocMapsOfSize(n) : n \in 0..MaxDocEntries}}
  \cup {EmptyDoc}

\* Response bodies: not JSON, JSON that is no object, objects with and
\* without an ok flag, with an error or a message
FnBodies ==
  {[js |-> "invalid"], JsNull, JsNumber(1),
   [js |-> "object"],
   [js |-> "object", ok |-> JsBool(TRUE), schemas |-> JsNumber(1)],
   [js |-> "object", ok |-> JsBool(FALSE), error |-> JsString("e")],
   [js |-> "object", error |-> JsString("e")],
   [js |-> "object", message |-> JsString("m")],
   [js |-> "object", error |-> JsNumber(1)]}

\* What fetch does: it rejects, or resolves to a response
FnFetches ==
  {[net |-> "rejected", err |-> e]
     : e \in {[js |-> "object", message |-> JsString("Failed to fetch")], JsString("offline"),
              JsUndefined}}
  \cup {[net |-> "response", response |-> [status |-> s, body |-> b]]
          : s \in {200, 204, 404, 500}, b \in FnBodies}

\* Payloads of a POST: one JSON.stringify takes, one it throws on
FnPayloads == {"plain", "cyclic"}

\* The page as the extension is loaded: the hook not installed, the canvas
\* not there yet, no inline editor
\* widget says whether the node has a schema_yaml widget, yaml is its value
PageInit ==
  [installed |-> FALSE, canvas |-> FALSE, registrations |-> 0, ref |-> 0, editors |-> <<>>,
   widget |-> FALSE, yaml |-> <<>>]

\* ------------------------------------------------------------------------
\* State
\* ------------------------------------------------------------------------

VARIABLES
  heap,     \* editor-state objects by identity
  cur,      \* node.properties.comfydata_state: the identity of the node's state
  hits,     \* node._comfydata_hits as left by the last draw
  pending,  \* callbacks not yet run: open inline editor, open menus, requests
  last,     \* the last gesture handled (history)
  arg,      \* input of a function application
  res,      \* result of a function application
  page      \* the page: the capture hook, the canvas, the inline editors

vars == <<heap, cur, hits, pending, last, arg, res, page>>

editorVars == <<heap, cur, hits, pending, last>>

\* { buttons: {}, rows: [], header: {}, scroll: {} }
NoHits == [drawn |-> FALSE, rows |-> <<>>, maxScrollRow |-> 0]

EditorInit ==
  /\ heap = (1 :> defaultState)
  /\ cur = 1
  /\ hits = NoHits
  /\ pending = {}
  /\ last = [op |-> "init"]
  /\ page = PageInit

\* ------------------------------------------------------------------------
\* Function applications
\* ------------------------------------------------------------------------

FnInit ==
  /\ EditorInit
  /\ arg \in {[kind |-> "state", state |-> s] : s \in FnStates}
        \cup {[kind |-> "path", state |-> s] : s \in FnPathStates}
        \cup {[kind |-> "doc", doc |-> d] : d \in FnDocs}
        \cup {[kind |-> "names", state |-> s] : s \in FnBlankStates}
        \cup {[kind |-> "fetch", fetched |-> f] : f \in FnFetches}
  /\ res = Null

FnBuildDoc ==
  /\ arg.kind \in {"state", "names"} /\ res = Null
  /\ res' = [op |-> "buildDocFromState", doc |-> buildDocFromState(arg.state)]
  /\ UNCHANGED <<editorVars, arg, page>>

FnRoundTrip ==
  /\ arg.kind = "state" /\ res # Null /\ res.op = "buildDocFromState"
  /\ res' = [op |-> "roundTrip", doc |-> res.doc, state |-> docToState(res.doc)]
  /\ UNCHANGED <<editorVars, arg, page>>

FnDocToState ==
  /\ arg.kind = "doc" /\ res = Null
  /\ res' = [op |-> "docToState", state |-> docToState(arg.doc)]
  /\ UNCHANGED <<editorVars, arg, page>>

FnFlattenRows ==
  /\ arg.kind = "state" /\ res = Null
  /\ res' = [op |-> "flattenRows", rows |-> flattenRows(arg.state.fields, 0, <<>>)]
  /\ UNCHANGED <<editorVars, arg, page>>

FnDeriveGraph ==
  /\ arg.kind \in {"state", "names"} /\ res = Null
  /\ res' = [op |-> "deriveGraphFromState", graph |-> deriveGraphFromState(arg.state)]
  /\ UNCHANGED <<editorVars, arg, page>>

FnGetFieldByPath ==
  /\ arg.kind = "path" /\ res = Null
  /\ \E p \in FnPaths :
       res' = [op |-> "getFieldByPath", path |-> p, val |-> getFieldByPath(arg.state, p)]
  /\ UNCHANGED <<editorVars, arg, page>>

\* The text of a document, as the schema_yaml widget shows it
FnDumpYamlish ==
  /\ arg.kind = "doc" /\ res = Null
  /\ res' = [op |-> "dumpYamlish", lines |-> dumpYamlish(arg.doc)]
  /\ UNCHANGED <<editorVars, arg, page>>

FnSafeGetJson ==
  /\ arg.kind = "fetch" /\ res = Null
  /\ res' = [op |-> "safeGetJson", val |-> safeGetJson(arg.fetched)]
  /\ UNCHANGED <<editorVars, arg, page>>

FnSafePostJson ==
  /\ arg.kind = "fetch" /\ res = Null
  /\ \E payload \in FnPayloads :
       res' = [op |-> "safePostJson", payload |-> payload,
               val |-> safePostJson(arg.fetched, payload)]
  /\ UNCHANGED <<editorVars, arg, page>>

\* A document is loaded and, nothing edited, encoded again
FnLoadSave ==
  /\ arg.kind = "doc" /\ res # Null /\ res.op = "docToState"
  /\ res' = [op |-> "loadSave", doc |-> buildDocFromState(res.state)]
  /\ UNCHANGED <<editorVars, arg, page>>

\* The node as the sync helpers see it: properties.comfydata_state, the value
\* of the schema_yaml widget, and whether the canvas was marked dirty
NodeOf(state) == [state |-> state, yaml |-> <<>>, dirty |-> FALSE]

\* setState(node, newState)
setState(node, newState) == [node EXCEPT !.state = newState]

\* syncYamlWidget(node): getState puts a default state where the node holds
\* none, and the widget gets the dump of the document built from the state
syncYamlWidget(node) ==
  LET s == getState(IF node.state = JsUndefined THEN defaultState ELSE node.state)
  IN [node EXCEPT !.state = s, !.yaml = dumpYamlish(buildDocFromState(s))]

\* The repository defines commitState twice: draw.js ends with return state,
\* sync.js returns nothing.  ret is what the caller gets.
CommitStateVersions == {"draw.js", "sync.js"}

commitStateOf(version, node, state) ==
  [node |-> [syncYamlWidget(setState(node, state)) EXCEPT !.dirty = TRUE],
   ret |-> IF version = "draw.js" THEN getState(state) ELSE JsUndefined]

\* state = commitState(this, state) in a gesture callback
FnCommitState ==
  /\ arg.kind = "state" /\ res = Null
  /\ \E version \in CommitStateVersions :
       \E c \in {commitStateOf(version, NodeOf(arg.state), arg.state)} :
         res' = [op |-> "commitState", version |-> version, node |-> c.node, ret |-> c.ret]
  /\ UNCHANGED <<editorVars, arg, page>>

\* A later callback of the same gesture: state = commitState(this, state)
\* with the state the caller was left with
FnLaterCommit ==
  /\ arg.kind = "state" /\ res # Null /\ res.op = "commitState"
  /\ \E c \in {commitStateOf(res.version, res.node, res.ret)} :
       res' = [op |-> "laterCommit", version |-> res.version, before |-> res.node.state,
               node |-> c.node, ret |-> c.ret]
  /\ UNCHANGED <<editorVars, arg, page>>

\* What the add-child gesture on a row whose parentPath is p leaves of state
AddChildGesture(state, p) ==
  LET s == [getState(state) EXCEPT !.fields = TouchByPath(@, p)]
      l == getFieldsListAtPath(s, p)
  IN getState(IF l # Null
              THEN PushAt(s, l, [newPlaceholderField EXCEPT !.id = FreshId(IdsOf(s.fields))])
              ELSE s)

\* What the delete gesture on a row whose path is p leaves of state; a row
\* whose path resolves to nothing is passed over
DeleteGesture(state, p) ==
  LET s == [getState(state) EXCEPT !.fields = TouchByPath(@, p)]
      f == getFieldByPath(s, p)
      l == getFieldsListAtPath(s, SubSeq(p, 1, Len(p) - 1))
      idx == p[Len(p)]
  IN IF f = Null THEN s
     ELSE getState(IF l # Null /\ idx >= 0 /\ idx < Len(l.list) THEN SpliceAt(s, l, idx) ELSE s)

\* The add-child gesture on a row whose parentPath is p
FnAddChild ==
  /\ arg.kind = "path" /\ res = Null
  /\ \E p \in FnPaths \ {<<>>} :
       res' = [op |-> "add_child", parentPath |-> p, state |-> AddChildGesture(arg.state, p)]
  /\ UNCHANGED <<editorVars, arg, page>>

\* The delete gesture on a row whose path is p
FnDelete ==
  /\ arg.kind = "path" /\ res = Null
  /\ \E p \in FnPaths \ {<<>>} :
       res' = [op |-> "delete", path |-> p, state |-> DeleteGesture(arg.state, p)]
  /\ UNCHANGED <<editorVars, arg, page>>

\* A delete on a row of the table drawn for arg.state was handled; a second
\* mouse-down on row k of the same table is handled before the next draw
FnSecondGesture ==
  /\ arg.kind = "path" /\ res # Null /\ res.op = "delete"
  /\ \E rows \in {flattenRows(getState(arg.state).fields, 0, <<>>)} :
       /\ \E j \in 1..Len(rows) : rows[j].kind = "field" /\ rows[j].path = res.path
       /\ \E k \in 1..Len(rows) :
            res' = IF rows[k].kind = "field"
                   THEN [op |-> "second", gesture |-> "delete", shown |-> rows[k].field.id,
                         before |-> res.state, state |-> DeleteGesture(res.state, rows[k].path)]
                   ELSE [op |-> "second", gesture |-> "add_child",
                         shown |-> getFieldByPath(arg.state, rows[k].parentPath).id,
                         before |-> res.state,
                         state |-> AddChildGesture(res.state, rows[k].parentPath)]
  /\ UNCHANGED <<editorVars, arg, page>>

FnNext ==
  \/ FnBuildDoc
  \/ FnRoundTrip
  \/ FnDocToState
  \/ FnLoadSave
  \/ FnDumpYamlish
  \/ FnSafeGetJson
  \/ FnSafePostJson
  \/ FnFlattenRows
  \/ FnDeriveGraph
  \/ FnGetFieldByPath
  \/ FnAddChild
  \/ FnDelete
  \/ FnCommitState
  \/ FnLaterCommit
  \/ FnSecondGesture

SpecFn == FnInit /\ [][FnNext]_vars

\* ------------------------------------------------------------------------
\* inline_edit.js: normalizeValuesToCsv
\* ------------------------------------------------------------------------

Upper == <<"A", "B", "C", "D", "E", "F", "G", "H", "I", "J", "K", "L", "M",
           "N", "O", "P", "Q", "R", "S", "T", "U", "V", "W", "X", "Y", "Z">>

Lower == <<"a", "b", "c", "d", "e", "f", "g", "h", "i", "j", "k", "l", "m",
           "n", "o", "p", "q", "r", "s", "t", "u", "v", "w", "x", "y", "z">>

\* p.toLowerCase()
toLowerCase(s) ==
  [i \in 1..Len(s) |->
     IF \E n \in 1..Len(Upper) : Upper[n] = s[i]
     THEN Lower[CHOOSE n \in 1..Len(Upper) : Upper[n] = s[i]]
     ELSE s[i]]

\* The loop that keeps the first of the parts that are equal without case
RECURSIVE DedupeLoop(_, _, _, _)
DedupeLoop(parts, i, seen, out) ==
  IF i > Len(parts) THEN out
  ELSE LET key == toLowerCase(parts[i])
       IN IF key \in seen THEN DedupeLoop(parts, i + 1, seen, out)
          ELSE DedupeLoop(parts, i + 1, seen \cup {key}, Append(out, parts[i]))

normalizeValuesToCsv(text) ==
  Join(DedupeLoop(FilterNonEmpty(MapTrim(SplitOn(text, {",", "|", "\n"}, <<>>))), 1, {}, <<>>),
       <<",", " ">>)

\* ------------------------------------------------------------------------
\* The editor: layout constants, inputs and bounds
\* ------------------------------------------------------------------------

UI_pad == 8

UI_rowH == 22

UI_btnH == 16

\* ensureNodeSize(this, 860, 320): the height of a node that was not resized
MinNodeH == 320

\* ry of onDrawForeground: the y of the first row
RowsTop == ((((UI_pad + 2) + UI_btnH + 6) + UI_btnH + 10) + UI_rowH + 6)

rowStep == UI_rowH + 6

\* Mutant: no upper bound
clamp_NoUpper(v, lo, hi) == IF v < lo THEN lo ELSE v

clamp(v, lo, hi) ==
  LET m == IF hi < v THEN hi ELSE v
  IN IF lo > m THEN lo ELSE m

\* Most field objects alive: in the node's state and in the states that
\* callbacks still hold
MaxFields == 2

\* Most callbacks waiting at one time: open editor, open menus, timers and
\* requests
MaxPending == 1

\* What the user types into a name editor
NameInputs == {<<"a", " ">>}

\* What the user types into the schema.name editor
SchemaNameInputs == {<<" ", "a">>}

\* What the user types into a values editor
ValuesInputs == {<<"x", "|", "X">>}

\* What the user types into the manual ref editor
RefInputs == {<<"a", " ">>}

\* The types the user picks from the FIELD_TYPES menu
TypePicks == {FIELD_TYPES[5], FIELD_TYPES[6], FIELD_TYPES[7]}

\* The schema documents the backend serves: GET /comfydata/schemas lists
\* their names, GET /comfydata/schema?name=... returns one.  One document:
\* schema a, an object field a that holds a single-select field a.
KnownSchemas ==
  <<[name |-> <<"a">>,
     doc |-> [schema |-> [name |-> <<"a">>,
                fields |-> <<[k |-> <<"a">>,
                              v |-> [js |-> "object", type |-> "object",
                                     fields |-> <<[k |-> <<"a">>,
                                                   v |-> [js |-> "object", type |-> "single-select",
                                                          values |-> <<<<"x">>>>]]>>]]>>]]]>>

\* The items of the menu openRefPicker builds
RefMenuItems ==
  {[item |-> "clear"], [item |-> "manual"], [item |-> "divider"]}
  \cup {[item |-> "schema", name |-> KnownSchemas[i].name] : i \in 1..Len(KnownSchemas)}

\* ------------------------------------------------------------------------
\* The editor: objects and callbacks
\* ------------------------------------------------------------------------

\* The callbacks that belong to the one inline editor of the node
InlineKinds == {"rename", "schema_name", "values", "ref_manual", "saveas_name"}

\* The state objects still referenced: by the node or by a waiting callback
LiveSids(c, p) == {c} \cup {q.sid : q \in {r \in p : Has(r, "sid")}}

\* Identities of field objects in use: in some live state, or held by a callback
FieldIdsInUse(h, p) ==
  UNION {IdsOf(h[s].fields) : s \in DOMAIN h} \cup {q.fid : q \in {r \in p : Has(r, "fid")}}

AliveFields(h) == Cardinality(UNION {IdsOf(h[s].fields) : s \in DOMAIN h})

\* commitState(node, state) of draw.js: setState, then syncYamlWidget, whose
\* getState normalises the state now held; the node's state is h'[sid]
commitState(h, sid) == [h EXCEPT ![sid] = getState(h[sid])]

\* removePriorEditor, then the new editor's callback
OpenInline(p, q) == {r \in p : r.kind \notin InlineKinds} \cup {q}

\* A write through a reference to a field object of state sid
WriteField(h, sid, node) == [h EXCEPT ![sid].fields = ReplaceById(@, node)]

\* The loop over hits.rows up to row n: getFieldByPath on every field row
RECURSIVE TouchRows(_, _, _)
TouchRows(fields, rows, n) ==
  IF n = 0 THEN fields
  ELSE LET before == TouchRows(fields, rows, n - 1)
       IN IF rows[n].kind = "field" THEN TouchByPath(before, rows[n].path) ELSE before

\* The state as onMouseDown has it when it tests the rects of row k
RowState(k) ==
  LET s == getState(heap[cur])
  IN [s EXCEPT !.fields = TouchRows(@, hits.rows, k)]

\* Mutant: the toggle empties the object
ToggleExpanded_DropsChildren(f) == [f EXCEPT !.expanded = ~f.expanded, !.fields = <<>>]

\* f.expanded = !f.expanded
ToggleExpanded(f) == [f EXCEPT !.expanded = ~f.expanded]

\* What the hit table keeps of a row
HitRow(row) ==
  IF row.kind = "add_child" THEN [kind |-> "add_child", parentPath |-> row.parentPath]
  ELSE [kind |-> "field", path |-> row.path]

\* The rows of a flattening by position, depth and object identity
RowKeys(rows) ==
  [i \in 1..Len(rows) |->
     IF rows[i].kind = "add_child"
     THEN [kind |-> "add_child", parentPath |-> rows[i].parentPath, depth |-> rows[i].depth]
     ELSE [kind |-> "field", path |-> rows[i].path, depth |-> rows[i].depth,
           id |-> rows[i].field.id]]

\* Mutant: the children and the expanded flag of an object stay
DropTypeProps_KeepsFields(f) ==
  [k \in DOMAIN f \ ((IF f.type # "single-select" THEN {"values_csv"} ELSE {})
                       \cup (IF f.type # "ref" THEN {"ref"} ELSE {})) |-> f[k]]

\* if (f.type !== ...) delete ...: the properties of the other kinds go
DropTypeProps(f) ==
  [k \in DOMAIN f \ ((IF f.type # "single-select" THEN {"values_csv"} ELSE {})
                       \cup (IF f.type # "object" THEN {"fields", "expanded"} ELSE {})
                       \cup (IF f.type # "ref" THEN {"ref"} ELSE {})) |-> f[k]]

\* if (f.type === "object"): fields [] and expanded true unless it has them
EnsureTypeProps(f) ==
  IF f.type # "object" THEN f
  ELSE [k \in DOMAIN f \cup {"fields", "expanded"} |->
          IF k \in DOMAIN f THEN f[k] ELSE IF k = "fields" THEN <<>> ELSE TRUE]

Other == [op |-> "other"]

\* Identities are names the model gives to objects; which name an object has
\* shows in nothing the program does.  Every handler leaves the state in a
\* normal form: the node's state object is 1, the other state objects that
\* callbacks hold follow; field objects are numbered in the order a walk of
\* those states meets them, then the ones only callbacks hold.  An identity
\* that nothing holds any more becomes 0.
RECURSIVE PreOrderIds(_)
PreOrderIds(list) ==
  IF list = <<>> THEN <<>>
  ELSE (<<Head(list).id>>
          \o (IF Has(Head(list), "fields") THEN PreOrderIds(Head(list).fields) ELSE <<>>))
       \o PreOrderIds(Tail(list))

RECURSIVE SortedSeq(_)
SortedSeq(S) ==
  IF S = {} THEN <<>>
  ELSE LET m == CHOOSE x \in S : \A y \in S : x <= y
       IN <<m>> \o SortedSeq(S \ {m})

RECURSIVE IdsInOrder(_, _)
IdsInOrder(h, sids) ==
  IF sids = <<>> THEN <<>> ELSE PreOrderIds(h[Head(sids)].fields) \o IdsInOrder(h, Tail(sids))

IndexIn(seq, x) ==
  IF \E n \in 1..Len(seq) : seq[n] = x THEN CHOOSE n \in 1..Len(seq) : seq[n] = x ELSE 0

RECURSIVE Renamed(_, _)
Renamed(list, order) ==
  [i \in 1..Len(list) |->
     LET f == [list[i] EXCEPT !.id = IndexIn(order, @)]
     IN IF Has(f, "fields") THEN [f EXCEPT !.fields = Renamed(@, order)] ELSE f]

RenamedRows(rows, order) ==
  [i \in 1..Len(rows) |->
     IF rows[i].kind = "field" THEN [rows[i] EXCEPT !.id = IndexIn(order, @)] ELSE rows[i]]

\* What a handler leaves: the node holds state c, the callbacks p wait, l is
\* the gesture handled; state objects nothing references are collected.
Settled(h, c, p, l) ==
  LET sids == <<c>> \o SortedSeq(LiveSids(c, p) \ {c})
      attached == IdsInOrder(h, sids)
      held == {q.fid : q \in {r \in p : Has(r, "fid")}}
      order == attached \o SortedSeq(held \ {attached[n] : n \in 1..Len(attached)})
      closure(q) ==
        LET q1 == IF Has(q, "sid") THEN [q EXCEPT !.sid = IndexIn(sids, @)] ELSE q
        IN IF Has(q1, "fid") THEN [q1 EXCEPT !.fid = IndexIn(order, @)] ELSE q1
  IN [heap |-> [n \in 1..Len(sids) |-> [h[sids[n]] EXCEPT !.fields = Renamed(@, order)]],
      pending |-> {closure(q) : q \in p},
      last |-> IF l.op = "delete" THEN [l EXCEPT !.removed = IndexIn(order, @)]
               ELSE IF l.op = "toggle"
               THEN [l EXCEPT !.fid = IndexIn(order, @), !.rowsBefore = RenamedRows(@, order)]
               ELSE IF l.op = "ref_set" THEN [l EXCEPT !.fid = IndexIn(order, @)]
               ELSE l]

\* The handler returns: r is what it leaves
Return(r) ==
  /\ heap' = r.heap
  /\ cur' = 1
  /\ pending' = r.pending
  /\ last' = r.last
  /\ UNCHANGED <<hits, arg, res, page>>

\* Mutant: the widget keeps the value it had
WidgetSynced_Stale(p, s) == p

\* syncYamlWidget(node) in commitState: if (w) w.value = dumpYamlish(doc),
\* s being the state the node holds
WidgetSynced(p, s) ==
  IF p.widget THEN [p EXCEPT !.yaml = dumpYamlish(buildDocFromState(s))] ELSE p

\* The handler returns after commitState: r is what it leaves
ReturnCommitted(r) ==
  /\ heap' = r.heap
  /\ cur' = 1
  /\ pending' = r.pending
  /\ last' = r.last
  /\ page' = WidgetSynced(page, r.heap[1])
  /\ UNCHANGED <<hits, arg, res>>

\* The end of a handler that commits state sid
Commit(h, sid, p, l) ==
  \E r \in {Settled(commitState(h, sid), sid, p, l)} : ReturnCommitted(r)

\* The end of a handler that leaves callbacks waiting and commits nothing
Wait(h, p, l) ==
  /\ Cardinality(p) <= MaxPending
  /\ \E r \in {Settled(h, cur, p, l)} : Return(r)

\* ------------------------------------------------------------------------
\* The editor: onDrawForeground
\* ------------------------------------------------------------------------

\* last is the gesture the editor handled most recently.  A toggle is
\* remembered across redraws ("toggled"), with the rows as they were before
\* it.

Draw ==
  LET s == getState(heap[cur])
      flat == flattenRows(s.fields, 0, <<>>)
      viewportH == IF MinNodeH - RowsTop - 10 < 0 THEN 0 ELSE MinNodeH - RowsTop - 10
      maxRows == viewportH \div rowStep
      totalRows == Len(flat)
      canScroll == totalRows > maxRows /\ maxRows > 0
      maxScrollRow == IF canScroll THEN totalRows - maxRows ELSE 0
      desired == clamp(s.scroll_row, 0, maxScrollRow)
      start == IF canScroll THEN desired ELSE 0
      visibleRows == SubSeq(flat, start + 1,
                            IF start + maxRows < totalRows THEN start + maxRows ELSE totalRows)
  IN /\ heap' = [heap EXCEPT ![cur] = [s EXCEPT !.fields = TouchFlatten(s.fields),
                                                !.scroll_row = desired]]
     /\ hits' = [drawn |-> TRUE,
                 rows |-> [i \in 1..Len(visibleRows) |-> HitRow(visibleRows[i])],
                 maxScrollRow |-> maxScrollRow]
     /\ last' = IF last.op \in {"toggle", "toggled"} THEN [last EXCEPT !.op = "toggled"] ELSE Other
     /\ UNCHANGED <<cur, pending, arg, res, page>>

\* ------------------------------------------------------------------------
\* The editor: onMouseDown
\* ------------------------------------------------------------------------

\* In the actions, \E x \in {e} names the value of e once, as a const of the
\* handler does.

\* New
ClickNew ==
  /\ hits.drawn
  /\ \E sid \in {FreshId(DOMAIN heap)} :
       Commit(heap @@ (sid :> defaultState), sid, pending, Other)

\* + Field
ClickAdd ==
  /\ hits.drawn
  /\ \E s \in {getState(heap[cur])} :
       Commit([heap EXCEPT ![cur] =
                 [s EXCEPT !.fields =
                    Append(@, [newPlaceholderField EXCEPT
                                 !.id = FreshId(FieldIdsInUse(heap, pending))])]],
              cur, pending, Other)
  /\ AliveFields(heap') <= MaxFields

\* The schema.name chip
ClickSchemaName ==
  /\ hits.drawn
  /\ Wait([heap EXCEPT ![cur] = getState(@)],
          OpenInline(pending, [kind |-> "schema_name", sid |-> cur]), Other)

\* Load
ClickLoad ==
  /\ hits.drawn
  /\ [kind |-> "load_list"] \notin pending
  /\ Wait([heap EXCEPT ![cur] = getState(@)], pending \cup {[kind |-> "load_list"]}, Other)

\* "+ Add field" of an expanded object
ClickAddChild ==
  \E k \in 1..Len(hits.rows) :
    /\ hits.rows[k].kind = "add_child"
    /\ \E s \in {[RowState(k) EXCEPT !.fields = TouchByPath(@, hits.rows[k].parentPath)]} :
       \E l \in {getFieldsListAtPath(s, hits.rows[k].parentPath)} :
         Commit([heap EXCEPT ![cur] =
                   IF l # Null
                   THEN PushAt(s, l, [newPlaceholderField EXCEPT
                                        !.id = FreshId(FieldIdsInUse(heap, pending))])
                   ELSE s],
                cur, pending, Other)
    /\ AliveFields(heap') <= MaxFields

\* The x of a field row
ClickDelete ==
  \E k \in 1..Len(hits.rows) :
    /\ hits.rows[k].kind = "field"
    /\ \E s \in {RowState(k)}, path \in {hits.rows[k].path} :
       \E f \in {getFieldByPath(s, path)},
          l \in {getFieldsListAtPath(s, SubSeq(path, 1, Len(path) - 1))},
          idx \in {path[Len(path)]} :
         /\ f # Null
         /\ Commit([heap EXCEPT ![cur] =
                      IF l # Null /\ idx >= 0 /\ idx < Len(l.list) THEN SpliceAt(s, l, idx) ELSE s],
                   cur, pending, [op |-> "delete", path |-> path, removed |-> f.id])

\* The name cell of a field row
ClickName ==
  \E k \in 1..Len(hits.rows) :
    /\ hits.rows[k].kind = "field"
    /\ \E s \in {RowState(k)} :
       \E f \in {getFieldByPath(s, hits.rows[k].path)} :
         /\ f # Null
         /\ Wait([heap EXCEPT ![cur] = s],
                 OpenInline(pending, [kind |-> "rename", sid |-> cur, fid |-> f.id]), Other)

\* The type cell of a field row
ClickType ==
  \E k \in 1..Len(hits.rows) :
    /\ hits.rows[k].kind = "field"
    /\ \E s \in {RowState(k)} :
       \E f \in {getFieldByPath(s, hits.rows[k].path)} :
         /\ f # Null
         /\ [kind |-> "type_menu", sid |-> cur, fid |-> f.id] \notin pending
         /\ Wait([heap EXCEPT ![cur] = s],
                 pending \cup {[kind |-> "type_menu", sid |-> cur, fid |-> f.id]}, Other)

\* The values cell of a single-select row
ClickValsSelect ==
  \E k \in 1..Len(hits.rows) :
    /\ hits.rows[k].kind = "field"
    /\ \E s \in {RowState(k)} :
       \E f \in {getFieldByPath(s, hits.rows[k].path)} :
         /\ f # Null
         /\ f.type = "single-select"
         /\ Wait([heap EXCEPT ![cur] = s],
                 OpenInline(pending, [kind |-> "values", sid |-> cur, fid |-> f.id]), Other)

\* The values cell of an object row: collapse or expand
ClickValsToggle ==
  \E k \in 1..Len(hits.rows) :
    /\ hits.rows[k].kind = "field"
    /\ \E s \in {RowState(k)} :
       \E f \in {getFieldByPath(s, hits.rows[k].path)} :
         /\ f # Null
         /\ f.type = "object"
         /\ Commit([heap EXCEPT ![cur] = [s EXCEPT !.fields = ReplaceById(@, ToggleExpanded(f))]],
                   cur, pending,
                   [op |-> "toggle", fid |-> f.id,
                    rowsBefore |-> RowKeys(flattenRows(s.fields, 0, <<>>))])

\* The values cell of a ref row: openRefPicker up to its await
ClickValsRef ==
  \E k \in 1..Len(hits.rows) :
    /\ hits.rows[k].kind = "field"
    /\ \E s \in {RowState(k)} :
       \E f \in {getFieldByPath(s, hits.rows[k].path)} :
         /\ f # Null
         /\ f.type = "ref"
         /\ [kind |-> "ref_fetch", sid |-> cur, fid |-> f.id] \notin pending
         /\ Wait([heap EXCEPT ![cur] = s],
                 pending \cup {[kind |-> "ref_fetch", sid |-> cur, fid |-> f.id]}, Other)

\* A mouse-down that acts on nothing: the values cell of a primitive row, a
\* row whose path no longer resolves, or a point outside every rect.  The
\* loop over the rows runs getFieldByPath on the rows it passes.
ClickNothing ==
  \E k \in 0..Len(hits.rows) :
    \E s \in {RowState(k)} :
      /\ \/ k = Len(hits.rows)
         \/ /\ k > 0
            /\ hits.rows[k].kind = "field"
            /\ \E f \in {getFieldByPath(s, hits.rows[k].path)} :
                 f # Null /\ f.type \in PRIMITIVE_TYPES
      /\ heap' = [heap EXCEPT ![cur] = s]
      /\ last' = Other
      /\ UNCHANGED <<cur, hits, pending, arg, res, page>>

\* ------------------------------------------------------------------------
\* The editor: callbacks
\* ------------------------------------------------------------------------

\* The field object a callback holds, if its state's tree still has it.  A
\* detached object is reachable from nothing but the callback: a write to it
\* shows nowhere.
Held(q) == FindById(heap[q.sid].fields, q.fid)

\* Enter or blur in the name editor
CommitRename ==
  \E q \in pending, val \in NameInputs :
    /\ q.kind = "rename"
    /\ \E f \in {Held(q)} :
         Commit(IF f # Null THEN WriteField(heap, q.sid, [f EXCEPT !.name = Trim(val)]) ELSE heap,
                q.sid, pending \ {q}, Other)

\* Enter or blur in the schema.name editor
CommitSchemaName ==
  \E q \in pending, val \in SchemaNameInputs :
    /\ q.kind = "schema_name"
    /\ Commit([heap EXCEPT ![q.sid].schema_name = Trim(val)], q.sid, pending \ {q}, Other)

\* Ctrl+Enter or blur in the values editor
CommitValues ==
  \E q \in pending, val \in ValuesInputs :
    /\ q.kind = "values"
    /\ \E f \in {Held(q)}, csv \in {normalizeValuesToCsv(val)} :
         Commit(IF f = Null THEN heap
                ELSE WriteField(heap, q.sid,
                       IF Trim(csv) = <<>> THEN Del(f, "values_csv")
                       ELSE Put(f, "values_csv", csv)),
                q.sid, pending \ {q}, Other)

\* field.ref = target; if (!field.ref) delete field.ref
SetRef(f, target) == IF target = <<>> THEN Del(f, "ref") ELSE Put(f, "ref", target)

\* What is remembered of a gesture that gave field f the target
RefSet(f, target) ==
  IF f # Null /\ target # <<>>
  THEN [op |-> "ref_set", fid |-> f.id, target |-> target,
        before |-> IF Has(f, "ref") THEN f.ref ELSE <<>>]
  ELSE Other

\* Enter or blur in the manual ref editor
CommitRefManual ==
  \E q \in pending, val \in RefInputs :
    /\ q.kind = "ref_manual"
    /\ \E f \in {Held(q)}, target \in {Trim(val)} :
         Commit(IF f = Null THEN heap ELSE WriteField(heap, q.sid, SetRef(f, target)),
                q.sid, pending \ {q}, RefSet(f, target))

\* Escape in an inline editor
InlineEscape ==
  \E q \in pending :
    /\ q.kind \in InlineKinds
    /\ Wait(heap, pending \ {q}, Other)

\* The picked type and the properties that go with it
SetType(f, picked) ==
  EnsureTypeProps(DropTypeProps([f EXCEPT !.type = picked]))

\* The callback q of the FIELD_TYPES menu runs with the type picked
TypePickOn(q, picked) ==
    /\ q.kind = "type_menu"
    /\ \E f \in {Held(q)} :
         Commit(IF f # Null THEN WriteField(heap, q.sid, SetType(f, picked)) ELSE heap,
                q.sid,
                (pending \ {q})
                  \cup (IF picked = "single-select"
                        THEN {[kind |-> "open_values", sid |-> q.sid, fid |-> q.fid]}
                        ELSE IF picked = "ref"
                        THEN {[kind |-> "ref_fetch", sid |-> q.sid, fid |-> q.fid]}
                        ELSE {}),
                Other)

\* A pick in the FIELD_TYPES menu
TypePick == \E q \in pending, picked \in TypePicks : TypePickOn(q, picked)

\* setTimeout(() => beginInlineEditTextarea(...), 0) of the type pick
TimerOpenValues ==
  \E q \in pending :
    /\ q.kind = "open_values"
    /\ Wait(heap, OpenInline(pending \ {q}, [kind |-> "values", sid |-> q.sid, fid |-> q.fid]),
            Other)

\* getSchemasCached resolves: openRefPicker shows its menu
RefListArrives ==
  \E q \in pending :
    /\ q.kind = "ref_fetch"
    /\ Wait(heap, (pending \ {q}) \cup {[kind |-> "ref_menu", sid |-> q.sid, fid |-> q.fid]},
            Other)

\* A pick in the menu of openRefPicker
RefPick ==
  \E q \in pending, picked \in RefMenuItems :
    /\ q.kind = "ref_menu"
    /\ \E f \in {Held(q)} :
         \/ /\ picked.item = "clear"
            /\ Commit(IF f # Null THEN WriteField(heap, q.sid, Del(f, "ref")) ELSE heap,
                      q.sid, pending \ {q}, Other)
         \/ /\ picked.item = "manual"
            /\ Wait(heap,
                    OpenInline(pending \ {q}, [kind |-> "ref_manual", sid |-> q.sid, fid |-> q.fid]),
                    Other)
         \/ /\ picked.item = "divider"
            /\ Wait(heap, pending \ {q}, Other)
         \/ /\ picked.item = "schema"
            /\ \E target \in {Trim(picked.name)} :
                 Commit(IF f = Null THEN heap ELSE WriteField(heap, q.sid, SetRef(f, target)),
                        q.sid, pending \ {q}, RefSet(f, target))

\* GET /comfydata/schemas answers the Load button, the menu of schemas opens
\* and the user picks: the request for the document leaves
LoadPick ==
  \E q \in pending, i \in 1..Len(KnownSchemas) :
    /\ q.kind = "load_list"
    /\ Wait(heap, (pending \ {q}) \cup {[kind |-> "load_doc", doc |-> i]}, Other)

\* The document arrives: docToState, commitNewState, then validation = null
\* and commitState
LoadDocArrives ==
  \E q \in pending :
    /\ q.kind = "load_doc"
    /\ \E next \in {docToState(KnownSchemas[q.doc].doc)}, sid \in {FreshId(DOMAIN heap)} :
       \E h \in {commitState(heap @@ (sid :> [next EXCEPT !.fields =
                    AssignIds(next.fields, FieldIdsInUse(heap, pending)).out]), sid)} :
         Commit([h EXCEPT ![sid].validation = Null], sid, pending \ {q}, Other)
    /\ AliveFields(heap') <= MaxFields

\* A menu is dismissed without a pick
MenuDismissed ==
  \E q \in pending :
    /\ q.kind \in {"type_menu", "ref_menu"}
    /\ Wait(heap, pending \ {q}, Other)

\* A request fails: the handler shows a toast and returns
RequestFails ==
  \E q \in pending :
    /\ q.kind \in {"ref_fetch", "load_list", "load_doc"}
    /\ Wait(heap, pending \ {q}, Other)

\* ------------------------------------------------------------------------
\* The editor: Save and Save As
\* ------------------------------------------------------------------------

\* What the user types into the Save As editor
SaveAsInputs == {<<" ">>, <<" ", "b">>}

\* How POST /comfydata/schema/save ends: fetch rejects, the backend refuses,
\* the answer is no JSON, or the schema is saved with or without warnings
SaveFetches ==
  {[net |-> "rejected", err |-> JsString("offline")],
   [net |-> "response", response |-> [status |-> 500, body |-> [js |-> "object"]]],
   [net |-> "response",
    response |-> [status |-> 200,
                  body |-> [js |-> "object", ok |-> JsBool(FALSE), error |-> JsString("e")]]],
   [net |-> "response", response |-> [status |-> 200, body |-> [js |-> "invalid"]]],
   [net |-> "response",
    response |-> [status |-> 200, body |-> [js |-> "object", ok |-> JsBool(TRUE)]]],
   [net |-> "response",
    response |-> [status |-> 200,
                  body |-> [js |-> "object", ok |-> JsBool(TRUE),
                            validation |-> [js |-> "object", ok |-> JsBool(FALSE)]]]]}

\* res?.validation ?? null
ValidationOf(r) ==
  LET v == OptProp(r, "validation") IN IF v.js \in {"undefined", "null"} THEN Null ELSE v

\* Mutant: the name is written before the answer is looked at
SaveAsSettled_NameFirst(h, sid, name, r) ==
  IF ~Truthy(OptProp(r, "ok")) THEN [h EXCEPT ![sid].schema_name = name]
  ELSE [h EXCEPT ![sid].schema_name = name, ![sid].validation = ValidationOf(r)]

\* The Save As request settled with r: if (!res?.ok) return; then the
\* writes to the state the callback holds
SaveAsSettled(h, sid, name, r) ==
  IF ~Truthy(OptProp(r, "ok")) THEN h
  ELSE [h EXCEPT ![sid].schema_name = name, ![sid].validation = ValidationOf(r)]

\* Save: without a name a toast and nothing else, else the request leaves
ClickSave ==
  /\ hits.drawn
  /\ \E s \in {getState(heap[cur])} :
       IF Trim(s.schema_name) = <<>>
       THEN Wait([heap EXCEPT ![cur] = s], pending, [op |-> "save_refused"])
       ELSE Wait([heap EXCEPT ![cur] = s], pending \cup {[kind |-> "save", sid |-> cur]},
                 [op |-> "save_sent"])

\* Mutant: the validation is written whatever the answer
SaveSettled_WritesOnFailure(h, sid, r) == [h EXCEPT ![sid].validation = ValidationOf(r)]

\* The Save request settled with r: if (!res?.ok) return; then the write to
\* the state the handler holds
SaveSettled(h, sid, r) ==
  IF ~Truthy(OptProp(r, "ok")) THEN h ELSE [h EXCEPT ![sid].validation = ValidationOf(r)]

\* The Save request settles
SaveSettles ==
  \E q \in pending, fetched \in SaveFetches :
    /\ q.kind = "save"
    /\ \E r \in {safePostJson(fetched, "plain")} :
       \E h \in {SaveSettled(heap, q.sid, r)} :
         IF ~Truthy(OptProp(r, "ok"))
         THEN Wait(h, pending \ {q}, [op |-> "save_failed"])
         ELSE Commit(h, q.sid, pending \ {q},
                     [op |-> "save_done", validation |-> ValidationOf(r)])

\* Save As: the schema.name editor opens
ClickSaveAs ==
  /\ hits.drawn
  /\ Wait([heap EXCEPT ![cur] = getState(@)],
          OpenInline(pending, [kind |-> "saveas_name", sid |-> cur]), Other)

\* Enter or blur in the Save As editor
CommitSaveAs ==
  \E q \in pending, val \in SaveAsInputs :
    /\ q.kind = "saveas_name"
    /\ \E nextName \in {Trim(val)} :
         IF nextName = <<>>
         THEN Wait(heap, pending \ {q}, [op |-> "saveas_refused"])
         ELSE Wait(heap, (pending \ {q}) \cup {[kind |-> "saveas", sid |-> q.sid, name |-> nextName]},
                   [op |-> "saveas_sent"])

\* The Save As request settles
SaveAsSettles ==
  \E q \in pending, fetched \in SaveFetches :
    /\ q.kind = "saveas"
    /\ \E r \in {safePostJson(fetched, "plain")} :
       \E h \in {SaveAsSettled(heap, q.sid, q.name, r)} :
         IF ~Truthy(OptProp(r, "ok"))
         THEN Wait(h, pending \ {q}, [op |-> "saveas_failed"])
         ELSE Commit(h, q.sid, pending \ {q}, [op |-> "saveas_done", name |-> q.name])

NextSave ==
  \/ Draw
  \/ ClickNew
  \/ ClickAdd
  \/ ClickSchemaName
  \/ CommitSchemaName
  \/ InlineEscape
  \/ ClickLoad
  \/ LoadPick
  \/ LoadDocArrives
  \/ RequestFails
  \/ ClickSave
  \/ SaveSettles
  \/ ClickSaveAs
  \/ CommitSaveAs
  \/ SaveAsSettles

\* ------------------------------------------------------------------------
\* The editor
\* ------------------------------------------------------------------------

Init ==
  /\ EditorInit
  /\ arg = Null
  /\ res = Null

Next ==
  \/ Draw
  \/ ClickNew
  \/ ClickAdd
  \/ ClickSchemaName
  \/ ClickLoad
  \/ ClickAddChild
  \/ ClickDelete
  \/ ClickName
  \/ ClickType
  \/ ClickValsSelect
  \/ ClickValsToggle
  \/ ClickValsRef
  \/ ClickNothing
  \/ CommitRename
  \/ CommitSchemaName
  \/ CommitValues
  \/ CommitRefManual
  \/ InlineEscape
  \/ TypePick
  \/ TimerOpenValues
  \/ RefListArrives
  \/ RefPick
  \/ LoadPick
  \/ LoadDocArrives
  \/ MenuDismissed
  \/ RequestFails

Spec == Init /\ [][Next]_vars

SpecSave == Init /\ [][NextSave]_vars

\* The editor on a node that has the schema_yaml widget
WidgetInit ==
  /\ heap = (1 :> defaultState)
  /\ cur = 1
  /\ hits = NoHits
  /\ pending = {}
  /\ last = [op |-> "init"]
  /\ page = [PageInit EXCEPT !.widget = TRUE]
  /\ arg = Null
  /\ res = Null

\* The gestures on the header and the rows and their callbacks; the picker of
\* a reference is left out
NextWidget ==
  \/ Draw
  \/ ClickNew
  \/ ClickAdd
  \/ ClickSchemaName
  \/ ClickLoad
  \/ ClickAddChild
  \/ ClickDelete
  \/ ClickName
  \/ ClickType
  \/ ClickValsSelect
  \/ ClickValsToggle
  \/ ClickNothing
  \/ CommitRename
  \/ CommitSchemaName
  \/ CommitValues
  \/ InlineEscape
  \/ TypePick
  \/ TimerOpenValues
  \/ LoadPick
  \/ LoadDocArrives
  \/ MenuDismissed
  \/ RequestFails

SpecWidget == WidgetInit /\ [][NextWidget]_vars

\* ------------------------------------------------------------------------
\* The editor: the scroll window and onMouseWheel
\* ------------------------------------------------------------------------

\* Most rows of the flattened list
MaxTotalRows == 11

\* Largest scroll_row a stored state comes with
MaxStoredScroll == 5

\* Heights of the node: the least ensureNodeSize allows, and a taller one
NodeHeights == {MinNodeH, MinNodeH + 2 * rowStep}

\* The layout pass of onDrawForeground for totalRows rows in a node of
\* height sizeH: the clamped scroll_row and the slice of the rows shown
ScrollWindow(scroll_row, totalRows, sizeH) ==
  LET viewportH == IF sizeH - RowsTop - 10 < 0 THEN 0 ELSE sizeH - RowsTop - 10
      maxRows == viewportH \div rowStep
      canScroll == totalRows > maxRows /\ maxRows > 0
      maxScrollRow == IF canScroll THEN totalRows - maxRows ELSE 0
      desired == clamp(scroll_row, 0, maxScrollRow)
      start == IF canScroll THEN desired ELSE 0
      end == IF start + maxRows < totalRows THEN start + maxRows ELSE totalRows
  IN [maxRows |-> maxRows, maxScrollRow |-> maxScrollRow, scroll_row |-> desired,
      shown |-> {i \in 0..(totalRows - 1) : start <= i /\ i < end}]

\* onMouseWheel over the node body with Math.sign(deltaY) = dir
\* and the maxScrollRow of the last draw
Wheel(scroll_row, maxScrollRow, dir) ==
  IF maxScrollRow <= 0 \/ dir = 0 THEN scroll_row
  ELSE clamp(scroll_row + dir, 0, maxScrollRow)

\* A node with totalRows rows to show and a stored scroll_row
ScrollInit ==
  /\ EditorInit
  /\ arg \in {[kind |-> "scroll", totalRows |-> n, sizeH |-> h, scroll_row |-> r]
                : n \in 0..MaxTotalRows, h \in NodeHeights, r \in 0..MaxStoredScroll}
  /\ res = Null

\* onDrawForeground: the first draw takes the node as it was stored
ScrollDraw ==
  /\ arg.kind = "scroll"
  /\ IF res = Null THEN TRUE ELSE res.op # "draw"
  /\ \E n \in {IF res = Null THEN arg.totalRows ELSE res.totalRows},
        r \in {IF res = Null THEN arg.scroll_row ELSE res.scroll_row} :
       \E w \in {ScrollWindow(r, n, arg.sizeH)} :
         res' = [op |-> "draw", totalRows |-> n, scroll_row |-> w.scroll_row, before |-> r,
                 maxRows |-> w.maxRows, maxScrollRow |-> w.maxScrollRow, shown |-> w.shown]
  /\ UNCHANGED <<editorVars, arg, page>>

\* onMouseWheel
ScrollWheel ==
  /\ arg.kind = "scroll" /\ res # Null
  /\ \E dir \in {-1, 0, 1} :
       res' = [res EXCEPT !.op = "wheel", !.before = res.scroll_row,
                          !.scroll_row = Wheel(res.scroll_row, res.maxScrollRow, dir)]
  /\ UNCHANGED <<editorVars, arg, page>>

\* A gesture between two draws adds a row or takes one away
ScrollRowsChange ==
  /\ arg.kind = "scroll" /\ res # Null /\ res.op # "rows"
  /\ \E n \in {res.totalRows - 1, res.totalRows + 1} :
       /\ n >= 0 /\ n <= MaxTotalRows
       /\ res' = [res EXCEPT !.op = "rows", !.before = res.scroll_row, !.totalRows = n]
  /\ UNCHANGED <<editorVars, arg, page>>

NextScroll ==
  \/ ScrollDraw
  \/ ScrollWheel
  \/ ScrollRowsChange

SpecScroll == ScrollInit /\ [][NextScroll]_vars

\* ------------------------------------------------------------------------
\* The schema list cache: getSchemasCached
\* ------------------------------------------------------------------------

\* now - cache.ts < 10_000
CacheTtl == 10000

\* The clock moves in steps of so many milliseconds
ClockStep == 5000

\* The clock stops here
MaxClock == 25000

\* Most calls of getSchemasCached that wait for their answer
MaxCalls == 2

\* The lists the backend answers with
CacheLists == {<<"a">>, <<"a", "b">>}

\* The test at the head of getSchemasCached; a list stored is an array
CacheHit(cache, now) == cache # Null /\ now - cache.ts < CacheTtl

\* What the answer of safeGetJson leaves on the node for the call that began
\* at start: nothing new when !res?.ok, else { ts: now, list } with the now
\* of the call.  arrived is the time of the answer; the program does not
\* keep it.
CacheStored(cache, start, arrived, answer) ==
  IF ~answer.ok THEN cache ELSE [ts |-> start, arrived |-> arrived, list |-> answer.list]

\* The node as it is created: nothing cached, no call waiting
CacheInit ==
  /\ EditorInit
  /\ arg = [kind |-> "cache"]
  /\ res = [op |-> "init", now |-> 0, cache |-> Null, calls |-> {}, requests |-> 0]

\* Time passes
ClockTick ==
  /\ arg.kind = "cache"
  /\ res.now + ClockStep <= MaxClock
  /\ res' = [res EXCEPT !.op = "tick", !.now = @ + ClockStep, !.requests = 0]
  /\ UNCHANGED <<editorVars, arg, page>>

\* getSchemasCached(node) up to its await, or to its return of the cached list
CacheCall ==
  /\ arg.kind = "cache"
  /\ IF CacheHit(res.cache, res.now)
     THEN res' = [res EXCEPT !.op = "call", !.requests = 0]
     ELSE /\ Cardinality(res.calls) < MaxCalls
          /\ [start |-> res.now] \notin res.calls
          /\ res' = [res EXCEPT !.op = "call", !.requests = 1,
                                !.calls = @ \cup {[start |-> res.now]}]
  /\ UNCHANGED <<editorVars, arg, page>>

\* safeGetJson settles for a call that waits: with a list, or with a failure
\* and the call throws
CacheAnswer ==
  /\ arg.kind = "cache"
  /\ \E c \in res.calls,
        answer \in {[ok |-> FALSE]} \cup {[ok |-> TRUE, list |-> l] : l \in CacheLists} :
       res' = [res EXCEPT !.op = IF answer.ok THEN "stored" ELSE "threw",
                          !.requests = 0,
                          !.calls = @ \ {c},
                          !.cache = CacheStored(@, c.start, res.now, answer)]
  /\ UNCHANGED <<editorVars, arg, page>>

NextCache ==
  \/ ClockTick
  \/ CacheCall
  \/ CacheAnswer

SpecCache == CacheInit /\ [][NextCache]_vars

\* ------------------------------------------------------------------------
\* The page: installMouseCaptureHook, beginInlineEdit, beginInlineEditTextarea
\* ------------------------------------------------------------------------

\* Most rounds of addEventListener that are counted
MaxRegistrations == 2

\* Most inline editors opened
MaxEditors == 2

\* Most calls of one editor's onCommit that are counted
MaxCommits == 3

\* The texts an editor can hold
InlineTexts == {"a", "b"}

\* One more round of canvasEl.addEventListener(...)
Registered(n) == IF n < MaxRegistrations THEN n + 1 ELSE n

\* Mutant: the _installed flag is not consulted
installMouseCaptureHook_NoFlag(p) ==
  IF ~p.canvas THEN [p EXCEPT !.installed = TRUE]
  ELSE [p EXCEPT !.installed = TRUE, !.registrations = Registered(@)]

installMouseCaptureHook(p) ==
  IF p.installed THEN p
  ELSE IF ~p.canvas THEN [p EXCEPT !.installed = TRUE]
  ELSE [p EXCEPT !.installed = TRUE, !.registrations = Registered(@)]

\* onCommit(input.value)
Committed(ed) ==
  [ed EXCEPT !.commits = IF Len(@) < MaxCommits THEN Append(@, ed.text) ELSE @]

\* finish(commit) of editor e.  wrap.remove() takes a focused element out of
\* the document; blurs says whether the browser then delivers blur to it,
\* whose listener is finish(true), before remove() returns.
Finish(p, e, commit, blurs) ==
  LET ed == p.editors[e]
      removed == [ed EXCEPT !.attached = FALSE, !.focused = FALSE]
      nested == IF blurs /\ ed.attached /\ ed.focused THEN Committed(removed) ELSE removed
      done == IF commit THEN Committed(nested) ELSE nested
  IN [p EXCEPT !.editors[e] = done, !.ref = IF @ = e THEN 0 ELSE @]

\* Mutant: the reference is dropped and the overlay stays on the page
removePriorEditor_KeepsOverlay(p, blurs) == [p EXCEPT !.ref = 0]

removePriorEditor(p, blurs) ==
  IF p.ref = 0 THEN p ELSE [Finish(p, p.ref, FALSE, blurs) EXCEPT !.ref = 0]

\* The body of beginInlineEdit and of beginInlineEditTextarea
BeginEditor(p, kind, initialValue, blurs) ==
  IF ~p.canvas THEN p
  ELSE LET q == removePriorEditor(p, blurs)
       IN [q EXCEPT !.editors = Append(@, [kind |-> kind, attached |-> TRUE, focused |-> FALSE,
                                           timer |-> TRUE, text |-> initialValue,
                                           commits |-> <<>>]),
                    !.ref = Len(q.editors) + 1]

\* A step of the page: op is the event handled
PageStep(p, op) ==
  /\ page' = p
  /\ last' = [op |-> op]
  /\ UNCHANGED <<heap, cur, hits, pending, arg, res>>

\* app.canvas.canvas comes into being
CanvasReady ==
  /\ ~page.canvas
  /\ PageStep([page EXCEPT !.canvas = TRUE], "canvas")

InstallHook == PageStep(installMouseCaptureHook(page), "install")

BeginInlineEdit ==
  /\ Len(page.editors) < MaxEditors
  /\ \E t \in InlineTexts, blurs \in BOOLEAN : PageStep(BeginEditor(page, "input", t, blurs), "begin")

BeginInlineEditTextarea ==
  /\ Len(page.editors) < MaxEditors
  /\ \E t \in InlineTexts, blurs \in BOOLEAN : PageStep(BeginEditor(page, "textarea", t, blurs), "begin")

\* setTimeout(() => { input.focus(); input.select(); }, 0): the element that
\* had the focus is blurred
FocusTimer ==
  \E e \in 1..Len(page.editors) :
    /\ page.editors[e].timer
    /\ LET p0 == [page EXCEPT !.editors[e].timer = FALSE]
           had == {o \in 1..Len(page.editors) : o # e /\ page.editors[o].focused}
           p1 == IF had = {} THEN p0
                 ELSE LET o == CHOOSE o \in had : TRUE
                      IN Finish([p0 EXCEPT !.editors[o].focused = FALSE], o, TRUE, FALSE)
       IN PageStep(IF page.editors[e].attached THEN [p1 EXCEPT !.editors[e].focused = TRUE]
                   ELSE p0, "timer")

\* The user types
TypeInto ==
  \E e \in 1..Len(page.editors), t \in InlineTexts :
    /\ page.editors[e].attached /\ page.editors[e].focused
    /\ PageStep([page EXCEPT !.editors[e].text = t], "input")

\* keydown with key Enter
KeyEnterOn(e, ctrl, blurs) ==
  /\ page.editors[e].attached /\ page.editors[e].focused
  /\ PageStep(IF page.editors[e].kind = "input" \/ ctrl THEN Finish(page, e, TRUE, blurs)
              ELSE page, "Enter")

KeyEnter == \E e \in 1..Len(page.editors), ctrl \in BOOLEAN, blurs \in BOOLEAN : KeyEnterOn(e, ctrl, blurs)

\* keydown with key Escape
KeyEscapeOn(e, blurs) ==
  /\ page.editors[e].attached /\ page.editors[e].focused
  /\ PageStep(Finish(page, e, FALSE, blurs), "Escape")

KeyEscape == \E e \in 1..Len(page.editors), blurs \in BOOLEAN : KeyEscapeOn(e, blurs)

\* The focus goes elsewhere: blur
BlurOn(e) ==
  /\ page.editors[e].attached /\ page.editors[e].focused
  /\ PageStep(Finish([page EXCEPT !.editors[e].focused = FALSE], e, TRUE, FALSE), "blur")

Blur == \E e \in 1..Len(page.editors) : BlurOn(e)

NextPage ==
  \/ CanvasReady
  \/ InstallHook
  \/ BeginInlineEdit
  \/ BeginInlineEditTextarea
  \/ FocusTimer
  \/ TypeInto
  \/ KeyEnter
  \/ KeyEscape
  \/ Blur

SpecPage == Init /\ [][NextPage]_vars

\* ------------------------------------------------------------------------
\* Properties of the functions
\* ------------------------------------------------------------------------

\* The node a path leads to, by plain indexing (defined on valid paths only)
RECURSIVE Reach(_, _)
Reach(fields, path) ==
  IF Len(path) = 1 THEN fields[path[1] + 1]
  ELSE Reach(fields[path[1] + 1].fields, Tail(path))

\* Every index is within its list and every node before the last is an object
RECURSIVE ValidPath(_, _)
ValidPath(fields, path) ==
  /\ path # <<>>
  /\ path[1] >= 0
  /\ path[1] < Len(fields)
  /\ Len(path) > 1 =>
       /\ fields[path[1] + 1].type = "object"
       /\ ValidPath(fields[path[1] + 1].fields, Tail(path))

\* The paths of all the nodes of a tree, whatever is expanded
RECURSIVE NodePaths(_, _)
NodePaths(fields, base) ==
  UNION {({base \o <<i - 1>>}
          \cup (IF fields[i].type = "object"
                THEN NodePaths(fields[i].fields, base \o <<i - 1>>) ELSE {}))
           : i \in 1..Len(fields)}

\* All the ancestors of the node at path are expanded objects
AncestorsExpanded(fields, path) ==
  \A n \in 1..(Len(path) - 1) :
    LET anc == Reach(fields, SubSeq(path, 1, n))
    IN anc.type = "object" /\ anc.expanded

\* Every field of the tree, at every depth, has a non-empty name
AllNamed(fields) ==
  \A p \in NodePaths(fields, <<>>) : Reach(fields, p).name # <<>>

\* decoded is t, field for field and in order, but for normalized
\* single-select values and collapsed objects
RECURSIVE RoundTripEquivalent(_, _)
RoundTripEquivalent(decoded, t) ==
  /\ Len(decoded) = Len(t)
  /\ \A i \in 1..Len(t) :
       /\ decoded[i].name = t[i].name
       /\ decoded[i].type = t[i].type
       /\ t[i].type = "single-select" =>
            CsvToValues(decoded[i].values_csv) = CsvToValues(t[i].values_csv)
       /\ t[i].type = "ref" => Has(decoded[i], "ref") /\ decoded[i].ref = t[i].ref
       /\ t[i].type = "object" =>
            /\ decoded[i].expanded = FALSE
            /\ RoundTripEquivalent(decoded[i].fields, t[i].fields)

\* C1: decoding the encoding of a tree whose fields are all named gives the
\* tree back, field for field and in order, up to single-select
\* normalization and collapsed objects.
C1_RoundTrip ==
  (res # Null /\ res.op = "roundTrip" /\ AllNamed(arg.state.fields))
    => RoundTripEquivalent(res.state.fields, arg.state.fields)

\* The mapping the encoder gives the children of the object at a path:
\* the nested "fields" of the entries named after the objects on the way
RECURSIVE DocFieldsAt(_, _, _)
DocFieldsAt(mapping, fields, path) ==
  IF path = <<>> THEN mapping
  ELSE LET key == Trim(fields[path[1] + 1].name)
           hit == {i \in 1..Len(mapping) : mapping[i].k = key}
       IN IF hit = {} THEN <<>>
          ELSE LET v == mapping[CHOOSE i \in hit : TRUE].v
               IN IF v.js = "object" /\ Has(v, "fields")
                  THEN DocFieldsAt(v.fields, fields[path[1] + 1].fields, Tail(path))
                  ELSE <<>>

\* C5: every named ref field with a non-empty target is encoded as
\* { type: "ref", ref: target } under its name, and a ref field with an
\* empty target is not encoded at all.
C5_EncodeRef ==
  (res # Null /\ res.op = "buildDocFromState" /\ AllNamed(arg.state.fields))
    => \A p \in NodePaths(arg.state.fields, <<>>) :
         LET f == Reach(arg.state.fields, p)
             m == DocFieldsAt(res.doc.schema.fields, arg.state.fields,
                              SubSeq(p, 1, Len(p) - 1))
         IN f.type = "ref" =>
              IF f.ref # <<>>
              THEN \E i \in 1..Len(m) :
                     /\ m[i].k = Trim(f.name)
                     /\ m[i].v = [js |-> "object", type |-> "ref", ref |-> f.ref]
              ELSE \A i \in 1..Len(m) : m[i].k # Trim(f.name)

\* Every { type: "ref", ref: X } entry of a mapping, at every depth, has in
\* the decoded list a field of its name, of type ref, with target X
RECURSIVE RefsDecoded(_, _)
RefsDecoded(mapping, fields) ==
  \A i \in 1..Len(mapping) :
    LET v == mapping[i].v
    IN /\ (v.js = "object" /\ Has(v, "type") /\ v.type = "ref") =>
            \E j \in 1..Len(fields) :
              /\ fields[j].name = mapping[i].k
              /\ fields[j].type = "ref"
              /\ Has(fields[j], "ref") /\ fields[j].ref = v.ref
       /\ (v.js = "object" /\ Has(v, "type") /\ v.type = "object") =>
            \E j \in 1..Len(fields) :
              /\ fields[j].name = mapping[i].k
              /\ fields[j].type = "object"
              /\ RefsDecoded(v.fields, fields[j].fields)

\* C6: docToState turns every { type: "ref", ref: X } definition, at every
\* depth, into a field of type ref with target X.
C6_DecodeRef ==
  (res # Null /\ res.op = "docToState")
    => RefsDecoded(arg.doc.schema.fields, res.state.fields)

\* C7: for a non-empty path getFieldByPath returns the node the indices lead
\* to when every index is in range and every node before the last is an
\* object, and null otherwise.
C7_PathResolution ==
  (res # Null /\ res.op = "getFieldByPath" /\ res.path # <<>>)
    => IF ValidPath(arg.state.fields, res.path)
       THEN res.val = Reach(arg.state.fields, res.path)
       ELSE res.val = Null

C7_Witness ==
  /\ res # Null /\ res.op = "getFieldByPath"
  /\ Len(res.path) = 2
  /\ res.val # Null
  /\ res.val.id = 2

\* A path that runs into a non-object before its end resolves to null
C7_WitnessNonObject ==
  /\ res # Null /\ res.op = "getFieldByPath"
  /\ Len(res.path) = 2
  /\ res.path[1] = 0 /\ res.path[2] = 0
  /\ Len(arg.state.fields) > 0 /\ arg.state.fields[1].type # "object"
  /\ res.val = Null

FieldRowsAt(rows, p) == {i \in 1..Len(rows) : rows[i].kind = "field" /\ rows[i].path = p}

AddChildRowsAt(rows, p) ==
  {i \in 1..Len(rows) : rows[i].kind = "add_child" /\ rows[i].parentPath = p}

\* C9: flattenRows emits exactly one field row for each node whose ancestors
\* are all expanded objects, none for a node below a collapsed object, and
\* exactly one add_child row for each expanded object that has a field row
\* (and no other row).
C9_FlattenCounts ==
  (res # Null /\ res.op = "flattenRows")
    => LET fields == arg.state.fields
           rows == res.rows
           paths == NodePaths(fields, <<>>)
       IN /\ \A p \in paths :
               LET shown == AncestorsExpanded(fields, p)
                   f == Reach(fields, p)
               IN /\ Cardinality(FieldRowsAt(rows, p)) = (IF shown THEN 1 ELSE 0)
                  /\ \A i \in FieldRowsAt(rows, p) : rows[i].field.id = f.id
                  /\ Cardinality(AddChildRowsAt(rows, p)) =
                       (IF shown /\ f.type = "object" /\ f.expanded THEN 1 ELSE 0)
          /\ \A i \in 1..Len(rows) :
               IF rows[i].kind = "field" THEN rows[i].path \in paths
               ELSE rows[i].parentPath \in paths

\* An expanded object holding a collapsed object that has a child: rows for
\* the two objects and the add_child row of the outer one, none for the child
C9_Witness ==
  /\ res # Null /\ res.op = "flattenRows"
  /\ \E p \in NodePaths(arg.state.fields, <<>>) : ~AncestorsExpanded(arg.state.fields, p)
  /\ \E i \in 1..Len(res.rows) : res.rows[i].kind = "add_child"
  /\ Len(res.rows) = 3

\* p is q or an ancestor of q
IsPrefix(p, q) == Len(p) <= Len(q) /\ SubSeq(q, 1, Len(p)) = p

\* p comes before q in a depth-first pre-order walk
PathBefore(p, q) ==
  \/ IsPrefix(p, q) /\ p # q
  \/ \E n \in 1..Len(p) :
       /\ n <= Len(q)
       /\ SubSeq(p, 1, n - 1) = SubSeq(q, 1, n - 1)
       /\ p[n] < q[n]

\* The row belongs to the subtree of the object at p: the object's row, a
\* descendant's row, or the add_child row of an object below it
InSubtree(row, p) ==
  IF row.kind = "field" THEN IsPrefix(p, row.path)
  ELSE IsPrefix(p, row.parentPath) /\ row.parentPath # p

\* C11: flattenRows lists the field rows in depth-first pre-order, each at
\* the depth of its path; the add_child row of an expanded object at path p
\* and depth d comes immediately after the last row of that object's
\* subtree, which is one unbroken run from the object's row, and it carries
\* parentPath p and depth d + 1.
C11_RowOrder ==
  (res # Null /\ res.op = "flattenRows")
    => LET rows == res.rows
       IN /\ \A i, j \in 1..Len(rows) :
               (i < j /\ rows[i].kind = "field" /\ rows[j].kind = "field")
                 => PathBefore(rows[i].path, rows[j].path)
          /\ \A i \in 1..Len(rows) :
               rows[i].kind = "field" => rows[i].depth = Len(rows[i].path) - 1
          /\ \A k \in 1..Len(rows) :
               rows[k].kind = "add_child" =>
                 LET p == rows[k].parentPath
                     own == FieldRowsAt(rows, p)
                 IN /\ rows[k].depth = Len(p)
                    /\ Cardinality(own) = 1
                    /\ \A o \in own :
                         /\ rows[o].field.type = "object" /\ rows[o].field.expanded
                         /\ rows[k].depth = rows[o].depth + 1
                         /\ o < k
                         /\ \A i \in 1..Len(rows) : InSubtree(rows[i], p) <=> (o <= i /\ i < k)

\* An expanded object in an expanded object: the add_child row of the inner
\* one is followed at once by the add_child row of the outer one
C11_Witness ==
  /\ res # Null /\ res.op = "flattenRows"
  /\ \E k \in 1..(Len(res.rows) - 1) :
       /\ res.rows[k].kind = "add_child" /\ res.rows[k + 1].kind = "add_child"
       /\ res.rows[k].depth = 2 /\ res.rows[k + 1].depth = 1
       /\ res.rows[k - 1].kind = "field"

\* The values lists of the single-select entries of a mapping, at every depth
RECURSIVE SelectValuesIn(_)
SelectValuesIn(mapping) ==
  UNION {IF mapping[i].v.js # "object" THEN {}
         ELSE IF mapping[i].v.type = "single-select" THEN {mapping[i].v.values}
         ELSE IF mapping[i].v.type = "object" THEN SelectValuesIn(mapping[i].v.fields)
         ELSE {}
           : i \in 1..Len(mapping)}

\* Every value is trimmed and non-empty, and no two are equal without case
NormalizedValues(values) ==
  /\ \A i \in 1..Len(values) : values[i] # <<>> /\ Trim(values[i]) = values[i]
  /\ \A i, j \in 1..Len(values) :
       i # j => toLowerCase(values[i]) # toLowerCase(values[j])

\* C13: in the document buildDocFromState produces, the values list of every
\* single-select field has every value trimmed, no empty value and no two
\* values that are equal ignoring case.
C13_EncodeNormalized ==
  (res # Null /\ res.op = "buildDocFromState")
    => \A values \in SelectValuesIn(res.doc.schema.fields) : NormalizedValues(values)

\* Every key of the mapping, at every depth, is non-empty, has no white
\* space around it and is the trimmed name of a field of the list at that
\* place in the tree
RECURSIVE KeysAreTrimmedNames(_, _)
KeysAreTrimmedNames(mapping, list) ==
  \A i \in 1..Len(mapping) :
    /\ Trim(mapping[i].k) # <<>>
    /\ Trim(mapping[i].k) = mapping[i].k
    /\ \E j \in 1..Len(list) :
         /\ Trim(list[j].name) = mapping[i].k
         /\ (mapping[i].v.js = "object" /\ mapping[i].v.type = "object") =>
              /\ list[j].type = "object"
              /\ KeysAreTrimmedNames(mapping[i].v.fields, list[j].fields)

\* C14: buildDocFromState emits no key that is empty or only white space,
\* at any depth; every key it emits is the trimmed name of a field of the
\* tree; and a tree with unnamed fields still encodes to a document.
C14_NoUnnamedKeys ==
  (res # Null /\ res.op = "buildDocFromState")
    => /\ Has(res.doc, "schema") /\ Has(res.doc.schema, "fields")
       /\ KeysAreTrimmedNames(res.doc.schema.fields, arg.state.fields)

\* A tree with a field named " " and a field named " a ": the document has
\* the one key a
C14_Witness ==
  /\ res # Null /\ res.op = "buildDocFromState"
  /\ Len(arg.state.fields) = 2
  /\ arg.state.fields[1].name = <<" ">>
  /\ arg.state.fields[2].name = <<" ", "a", " ">>
  /\ Len(res.doc.schema.fields) = 1
  /\ res.doc.schema.fields[1].k = <<"a">>

\* A field definition the decoder knows: a type string, a single-select or
\* an object
IsDecodableEntry(e) ==
  \/ e.v.js = "string"
  \/ e.v.js = "object" /\ Has(e.v, "type") /\ e.v.type \in {"single-select", "object"}

\* A field definition of no known shape: null, a number, an object whose
\* type is missing or is none of single-select, object and ref
IsMalformedEntry(e) ==
  \/ e.v.js \in {"null", "number"}
  \/ /\ e.v.js = "object"
     /\ Has(e.v, "type") => e.v.type \notin {FIELD_TYPES[5], FIELD_TYPES[6], FIELD_TYPES[7]}

\* The mapping has no reference definition, at any depth
RECURSIVE NoRefEntries(_)
NoRefEntries(mapping) ==
  \A i \in 1..Len(mapping) :
    mapping[i].v.js = "object" /\ Has(mapping[i].v, "type") =>
      /\ mapping[i].v.type # "ref"
      /\ (mapping[i].v.type = "object" /\ Has(mapping[i].v, "fields")) =>
           NoRefEntries(mapping[i].v.fields)

\* fields is the decode, entry for entry and in the mapping's order, of the
\* entries that are not malformed
RECURSIVE DecodedInOrder(_, _)
DecodedInOrder(mapping, fields) ==
  LET kept == SelectSeq(mapping, LAMBDA e : ~IsMalformedEntry(e))
  IN /\ Len(fields) = Len(kept)
     /\ \A i \in 1..Len(kept) :
          /\ IsDecodableEntry(kept[i])
          /\ fields[i].name = kept[i].k
          /\ fields[i].type = (IF kept[i].v.js = "string" THEN kept[i].v.s ELSE kept[i].v.type)
          /\ fields[i].type = "object" =>
               DecodedInOrder(IF Has(kept[i].v, "fields") THEN kept[i].v.fields ELSE <<>>,
                              fields[i].fields)

RECURSIVE AllCollapsed(_)
AllCollapsed(fields) ==
  \A i \in 1..Len(fields) :
    fields[i].type = "object" =>
      /\ Has(fields[i], "expanded") /\ fields[i].expanded = FALSE
      /\ AllCollapsed(fields[i].fields)

\* fields is what the mapping's definitions decode to, in the mapping's
\* order: a field per type string, per single-select with the values of
\* its list, per object with the decode of its nested mapping as children
RECURSIVE ChildrenDecoded(_, _)
ChildrenDecoded(mapping, fields) ==
  LET defs == SelectSeq(mapping, IsDecodableEntry)
  IN /\ Len(fields) = Len(defs)
     /\ \A i \in 1..Len(defs) :
          /\ fields[i].name = defs[i].k
          /\ defs[i].v.js = "string" => fields[i].type = defs[i].v.s
          /\ (defs[i].v.js = "object" /\ defs[i].v.type = "single-select") =>
               /\ fields[i].type = "single-select"
               /\ CsvToValues(fields[i].values_csv) = defs[i].v.values
          /\ (defs[i].v.js = "object" /\ defs[i].v.type = "object") =>
               /\ fields[i].type = "object"
               /\ fields[i].expanded = FALSE
               /\ ChildrenDecoded(defs[i].v.fields, fields[i].fields)

RECURSIVE CanonicalMapping(_)
CanonicalMapping(mapping) ==
  \A i \in 1..Len(mapping) :
    LET v == mapping[i].v
    IN /\ Trim(mapping[i].k) = mapping[i].k /\ mapping[i].k # <<>>
       /\ \/ v.js = "string"
          \/ /\ v.js = "object" /\ DOMAIN v = {"js", "type", "values"}
             /\ v.type = "single-select"
             /\ \A n \in 1..Len(v.values) : v.values[n] # <<>> /\ Trim(v.values[n]) = v.values[n]
          \/ /\ v.js = "object" /\ DOMAIN v = {"js", "type", "fields"}
             /\ v.type = "object"
             /\ CanonicalMapping(v.fields)
          \/ /\ v.js = "object" /\ DOMAIN v = {"js", "type", "ref"}
             /\ v.type = "ref"
             /\ v.ref # <<>>

\* C19: a document in the canonical shape that is loaded and saved with
\* nothing edited in between is written as it was read:
\* buildDocFromState(docToState(d)) = d.
C19_LoadSaveLossless ==
  (res # Null /\ res.op = "loadSave" /\ CanonicalMapping(arg.doc.schema.fields))
    => res.doc = arg.doc

\* The paths of the ref fields of a tree that have a target, at every depth
RefFieldPaths(fields) ==
  {p \in NodePaths(fields, <<>>) :
     /\ Reach(fields, p).type = "ref"
     /\ Has(Reach(fields, p), "ref")
     /\ Trim(Reach(fields, p).ref) # <<>>}

\* The first node of the graph is the root, labelled with the trimmed schema
\* name, or with (unnamed) when that is empty
RootLabelled(g, state) ==
  /\ Len(g.nodes) >= 1
  /\ g.nodes[1].id = RootNodeId
  /\ g.nodes[1].label = (IF Trim(state.schema_name) # <<>> THEN Trim(state.schema_name)
                         ELSE <<"(", "u", "n", "n", "a", "m", "e", "d", ")">>)
  /\ \A i \in 2..Len(g.nodes) : g.nodes[i].id # RootNodeId

\* C20: the graph has the root node, labelled with the trimmed schema name
\* or with (unnamed); besides it, one node for every distinct target of the
\* tree's ref fields and no other; and one edge for every ref field that
\* has a target, from that field to its target's node, and no other.
C20_GraphShape ==
  (res # Null /\ res.op = "deriveGraphFromState") =>
    LET g == res.graph
        fields == arg.state.fields
        refs == RefFieldPaths(fields)
        target(p) == [ns |-> "SCHEMA", s |-> Trim(Reach(fields, p).ref)]
    IN /\ RootLabelled(g, arg.state)
       /\ \A i, j \in 1..Len(g.nodes) : g.nodes[i].id = g.nodes[j].id => i = j
       /\ {g.nodes[i].id : i \in 2..Len(g.nodes)} = {target(p) : p \in refs}
       /\ Len(g.edges) = Cardinality(refs)
       /\ \A p \in refs :
            \E i \in 1..Len(g.edges) :
              g.edges[i].fromPathKey = pathKey(p) /\ g.edges[i].toNodeId = target(p)

\* The number of spaces a line starts with
RECURSIVE IndentOf(_)
IndentOf(line) ==
  IF line # <<>> /\ Head(line) = " " THEN 1 + IndentOf(Tail(line)) ELSE 0

\* The lines a field definition takes: its key line and what hangs from it
RECURSIVE LinesOfMapping(_)
LinesOfEntry(e) ==
  IF e.v.js = "string" THEN 1
  ELSE IF e.v.js # "object" THEN 0
  ELSE IF Has(e.v, "type") /\ e.v.type = "single-select" THEN 3 + Len(e.v.values)
  ELSE IF Has(e.v, "type") /\ e.v.type = "object" THEN 3 + LinesOfMapping(e.v.fields)
  ELSE 2

LinesOfMapping(mapping) ==
  IF mapping = <<>> THEN 0 ELSE LinesOfEntry(Head(mapping)) + LinesOfMapping(Tail(mapping))

\* lines[from..] holds the block of the mapping whose "fields:" line has
\* indent at: a key line two spaces deeper for each definition, in the
\* mapping's order, a single-select with its "values:" line and one
\* "- value" line per value, an object with its nested "fields:" block
RECURSIVE BlockAt(_, _, _, _)
BlockAt(lines, from, mapping, at) ==
  \/ mapping = <<>>
  \/ LET e == Head(mapping)
         n == LinesOfEntry(e)
         key == Spaces(at + 2) \o e.k
     IN /\ from + n - 1 <= Len(lines)
        /\ e.v.js = "string" => lines[from] = key \o <<":", " ", e.v.s>>
        /\ e.v.js = "object" =>
             /\ lines[from] = key \o <<":">>
             /\ IndentOf(lines[from]) = at + 2
             /\ (Has(e.v, "type") /\ e.v.type = "single-select") =>
                  /\ lines[from + 2] = Spaces(at + 4) \o <<"values", ":">>
                  /\ \A m \in 1..Len(e.v.values) :
                       lines[from + 2 + m] = Spaces(at + 6) \o <<"-", " ">> \o e.v.values[m]
             /\ (Has(e.v, "type") /\ e.v.type = "object") =>
                  /\ lines[from + 2] = Spaces(at + 4) \o <<"fields", ":">>
                  /\ BlockAt(lines, from + 3, e.v.fields, at + 4)
        /\ BlockAt(lines, from + n, Tail(mapping), at)

\* C21: the text starts with the lines "schema:", "  name: <name>" and
\* "  fields:"; then come, in mapping order, the key lines of the fields,
\* each two spaces deeper than the "fields:" line of what contains it, a
\* single-select with a "values:" line and a "- value" line per value, an
\* object with a nested "fields:" block; and there is no other line.
C21_TextDump ==
  (res # Null /\ res.op = "dumpYamlish") =>
    /\ Len(res.lines) = 3 + LinesOfMapping(arg.doc.schema.fields)
    /\ res.lines[1] = <<"schema", ":">>
    /\ res.lines[2] = <<" ", " ", "name", ":", " ">> \o arg.doc.schema.name
    /\ res.lines[3] = <<" ", " ", "fields", ":">>
    /\ BlockAt(res.lines, 4, arg.doc.schema.fields, 2)

\* An object holding a single-select of two values, dumped
C21_Witness ==
  /\ res # Null /\ res.op = "dumpYamlish"
  /\ Len(arg.doc.schema.fields) = 1
  /\ Len(res.lines) = 3 + 3 + 5
  /\ IndentOf(res.lines[7]) = 8
  /\ IndentOf(res.lines[11]) = 12

\* C22: the document with an empty name and no fields decodes to
\* schema_name = "" and fields = [], and that state encodes to a document
\* with name "" and an empty fields mapping.
C22_EmptyDocument ==
  (res # Null /\ arg.kind = "doc" /\ arg.doc = EmptyDoc) =>
    /\ res.op = "docToState" =>
         /\ res.state.schema_name = <<>>
         /\ res.state.fields = <<>>
         /\ res.state = defaultState
    /\ res.op = "loadSave" =>
         /\ res.doc.schema.name = <<>>
         /\ res.doc.schema.fields = <<>>
         /\ DOMAIN res.doc = {"schema"}
         /\ DOMAIN res.doc.schema = {"name", "fields"}

\* The empty document was decoded and the state encoded again
C22_Witness ==
  /\ res # Null /\ res.op = "loadSave"
  /\ arg.kind = "doc" /\ arg.doc = EmptyDoc
  /\ res.doc = EmptyDoc

\* { ok: false, error: <string> }
IsFailureShape(v) ==
  /\ v.js = "object"
  /\ Has(v, "ok") /\ v.ok = JsBool(FALSE)
  /\ Has(v, "error") /\ v.error.js = "string"

\* C23: safeGetJson and safePostJson give { ok: false, error: <string> } when
\* the network fails, when the status is not 2xx and when the body is not
\* valid JSON, and give back unchanged a JSON body that has an ok flag.
C23_BackendCallsNormalized ==
  (res # Null /\ res.op \in {"safeGetJson", "safePostJson"}) =>
    LET f == arg.fetched
        sent == res.op = "safeGetJson" \/ res.payload = "plain"
    IN /\ (sent /\ f.net = "rejected") => IsFailureShape(res.val)
       /\ (sent /\ f.net = "response") =>
            /\ ~(f.response.status \in 200..299) => IsFailureShape(res.val)
            /\ f.response.body.js = "invalid" => IsFailureShape(res.val)
            /\ (/\ f.response.status \in 200..299
                /\ f.response.body.js = "object"
                /\ Has(f.response.body, "ok")) => res.val = f.response.body

\* The tree with the expanded flag of the object at path p flipped
ToggledAt(fields, p) ==
  LET f == Reach(fields, p)
  IN ReplaceById(fields, [f EXCEPT !.expanded = ~f.expanded])

GraphNodeSet(g) == {g.nodes[i] : i \in 1..Len(g.nodes)}

GraphEdgeSet(g) == {g.edges[i] : i \in 1..Len(g.edges)}

\* C3: the graph has a target node and an edge for every ref field with a
\* non-empty target at every depth, collapsed or not, and flipping any
\* object's expanded flag changes neither its nodes nor its edges.  Stated
\* for trees whose fields are all named, so that a violation is about the
\* display state alone.
C3_GraphIndependentOfDisplay ==
  (res # Null /\ res.op = "deriveGraphFromState" /\ AllNamed(arg.state.fields))
    => LET fields == arg.state.fields
           paths == NodePaths(fields, <<>>)
       IN /\ \A p \in paths :
               LET f == Reach(fields, p)
               IN (f.type = "ref" /\ Trim(f.ref) # <<>>) =>
                    /\ \E n \in GraphNodeSet(res.graph) :
                         n.id = [ns |-> "SCHEMA", s |-> Trim(f.ref)]
                    /\ \E e \in GraphEdgeSet(res.graph) :
                         /\ e.fromPathKey = pathKey(p)
                         /\ e.toNodeId = [ns |-> "SCHEMA", s |-> Trim(f.ref)]
          /\ \A p \in paths :
               Reach(fields, p).type = "object" =>
                 LET g2 == deriveGraphFromState(
                             [arg.state EXCEPT !.fields = ToggledAt(fields, p)])
                 IN /\ GraphNodeSet(g2) = GraphNodeSet(res.graph)
                    /\ GraphEdgeSet(g2) = GraphEdgeSet(res.graph)


\* ------------------------------------------------------------------------
\* Properties of the editor
\* ------------------------------------------------------------------------

\* The targets of the ref fields of a tree, at every depth
RECURSIVE RefTargets(_)
RefTargets(list) ==
  UNION {(IF list[i].type = "ref" /\ Has(list[i], "ref") /\ list[i].ref # <<>>
          THEN {list[i].ref} ELSE {})
         \cup (IF list[i].type = "object" /\ Has(list[i], "fields")
               THEN RefTargets(list[i].fields) ELSE {})
           : i \in 1..Len(list)}

\* The reference edges between schemas: those of the edited schema under its
\* trimmed name, and those of the documents the backend serves under theirs
SchemaEdges(state) ==
  LET self == Trim(state.schema_name)
  IN {<<self, t>> : t \in RefTargets(state.fields)}
     \cup UNION {{<<KnownSchemas[i].name, t>> :
                     t \in RefTargets(docToState(KnownSchemas[i].doc).fields)}
                   : i \in {n \in 1..Len(KnownSchemas) : KnownSchemas[n].name # self}}

\* The schemas reached from the set from by following n edges or fewer
RECURSIVE ReachedIn(_, _, _)
ReachedIn(edges, from, n) ==
  IF n = 0 THEN from
  ELSE ReachedIn(edges, from \cup {e[2] : e \in {d \in edges : d[1] \in from}}, n - 1)

\* Following the edges from schema a leads to schema b (a itself counts)
ReachesSchema(edges, a, b) == b \in ReachedIn(edges, {a}, Cardinality(edges))

\* No schema is reached from one of its own targets
AcyclicSchemas(edges) == \A e \in edges : ~ReachesSchema(edges, e[2], e[1])

\* C2: after a gesture that gave a ref field a target (menu pick or manual
\* entry), the reference graph of the schemas has no cycle, and a target
\* that reaches back to the edited schema, its own name included, has been
\* rejected: the field still has the ref it had before.
C2_CyclePrevention ==
  last.op = "ref_set" =>
    LET state == heap[cur]
        f == FindById(state.fields, last.fid)
        edges == SchemaEdges(state)
    IN f # Null =>
         /\ AcyclicSchemas(edges)
         /\ ReachesSchema(edges \ {<<Trim(state.schema_name), last.target>>},
                          last.target, Trim(state.schema_name))
              => (IF Has(f, "ref") THEN f.ref ELSE <<>>) = last.before

\* The sibling lists of a tree: the root list and the list of every object
RECURSIVE SiblingLists(_)
SiblingLists(list) ==
  {list} \cup UNION {IF list[i].type = "object" /\ Has(list[i], "fields")
                     THEN SiblingLists(list[i].fields) ELSE {}
                       : i \in 1..Len(list)}

\* C4: in every state of the editor, two distinct fields of one sibling
\* list have different names (exact comparison).  Stated on the fields that
\* have been given a name: two fresh placeholders, both still unnamed, are
\* not counted.
C4_SiblingNamesUnique ==
  \A l \in SiblingLists(heap[cur].fields) :
    \A i, j \in 1..Len(l) :
      (i # j /\ l[i].name # <<>> /\ l[j].name # <<>>) => l[i].name # l[j].name

\* C8: after the delete gesture removed the node a path resolved to,
\* getFieldByPath on the same path returns null or another node, never the
\* removed one.  removed is the identity of that node; it is 0 once nothing
\* holds the node any more.
C8_StalePathAfterDelete ==
  last.op = "delete" =>
    LET r == getFieldByPath(heap[cur], last.path)
    IN r = Null \/ r.id # last.removed

\* A delete after which the same path resolves again, to the sibling that
\* moved up
C8_Witness ==
  /\ last.op = "delete"
  /\ getFieldByPath(heap[cur], last.path) # Null

\* The properties of a field as the editor reads them
ValuesOf(f) == IF Has(f, "values_csv") THEN f.values_csv ELSE <<>>

RefOf(f) == IF Has(f, "ref") THEN f.ref ELSE <<>>

RequiredOf(f) == Has(f, "required") /\ f.required

ExpandedOf(f) == Has(f, "expanded") /\ f.expanded

ChildrenOf(f) == IF f.type = "object" /\ Has(f, "fields") THEN f.fields ELSE <<>>

\* after is before, object for object and in order, but for the expanded
\* flag of object fid, which is negated
RECURSIVE SameButExpanded(_, _, _)
SameButExpanded(before, after, fid) ==
  /\ Len(before) = Len(after)
  /\ \A i \in 1..Len(before) :
       /\ after[i].id = before[i].id
       /\ after[i].name = before[i].name
       /\ after[i].type = before[i].type
       /\ ValuesOf(after[i]) = ValuesOf(before[i])
       /\ RefOf(after[i]) = RefOf(before[i])
       /\ RequiredOf(after[i]) = RequiredOf(before[i])
       /\ before[i].type = "object" =>
            ExpandedOf(after[i]) = (IF before[i].id = fid THEN ~ExpandedOf(before[i])
                                    ELSE ExpandedOf(before[i]))
       /\ SameButExpanded(ChildrenOf(before[i]), ChildrenOf(after[i]), fid)

\* A click on the values cell of an object row
ToggleStep == last' # last /\ last'.op = "toggle"

\* The gesture before this toggle, redraws apart, was a toggle of the same
\* object
ToggledBefore == last.op \in {"toggle", "toggled"} /\ last.fid = last'.fid

\* What a toggle leaves alone
ToggleFrame ==
  /\ cur' = cur
  /\ heap'[cur'].schema_name = heap[cur].schema_name
  /\ SameButExpanded(heap[cur].fields, heap'[cur'].fields, last'.fid)
  /\ buildDocFromState(heap'[cur']) = buildDocFromState(heap[cur])
  /\ ToggledBefore => RowKeys(flattenRows(heap'[cur'].fields, 0, <<>>)) = last.rowsBefore

\* C10: collapsing or expanding an object changes only that object's
\* expanded flag: names, types, values, ref targets, children and their
\* order at every depth stay, the encoded document stays, and a second
\* toggle of the object brings back the rows as they were before the first.
C10_ToggleFrame == [][ToggleStep => ToggleFrame]_vars

\* An object that has children was collapsed
C10_Witness ==
  /\ last.op = "toggle"
  /\ LET f == FindById(heap[cur].fields, last.fid)
     IN f # Null /\ f.fields # <<>> /\ ~f.expanded

\* The field a type pick wrote to, as the state it committed holds it (a
\* pick leaves the field where it is in the walk of its tree)
PickedField(q) ==
  FindById(heap'[cur'].fields, IndexIn(PreOrderIds(heap[q.sid].fields), q.fid))

\* The field has the properties of its own kind only
NoOrphanedData(f) ==
  /\ Has(f, "values_csv") => f.type = "single-select"
  /\ (Has(f, "fields") \/ Has(f, "expanded")) => f.type = "object"
  /\ Has(f, "ref") => f.type = "ref"

\* C12: after the type picker set the type of a field, the field has the
\* type picked and carries values_csv only if it is single-select, fields
\* and expanded only if it is object, ref only if it is ref; a field that
\* was not an object (whatever it was before that) and is made an object
\* has no children.
C12_TypePickNoOrphans ==
  [][\A q \in pending, picked \in TypePicks :
       (TypePickOn(q, picked) /\ Held(q) # Null) =>
         /\ PickedField(q) # Null
         /\ PickedField(q).type = picked
         /\ NoOrphanedData(PickedField(q))
         /\ (picked = "object" /\ Held(q).type # "object") =>
              PickedField(q).fields = <<>>]_vars

\* The type picker has just made a field single-select: the timer that
\* opens its values editor waits, and the field has no children and no ref
C12_Witness ==
  \E q \in pending :
    /\ q.kind = "open_values"
    /\ LET f == FindById(heap[q.sid].fields, q.fid)
       IN f # Null /\ f.type = "single-select" /\ NoOrphanedData(f)

\* The content of a field that is its own: all but its children
SameField(a, b) ==
  /\ a.id = b.id
  /\ a.name = b.name
  /\ a.type = b.type
  /\ ValuesOf(a) = ValuesOf(b)
  /\ RefOf(a) = RefOf(b)
  /\ RequiredOf(a) = RequiredOf(b)
  /\ ExpandedOf(a) = ExpandedOf(b)

\* The path resolves to an object of the tree
ResolvesToObject(fields, p) == ValidPath(fields, p) /\ Reach(fields, p).type = "object"

\* C15: an add-child gesture whose parentPath resolves to an object appends
\* one placeholder (name empty, type str, not required) at the end of that
\* object's children: every field of the tree is found at the path it had,
\* with its content, and with its children but for the object's new last
\* one, and the tree has one field more.  A parentPath that does not resolve
\* to an object leaves the tree as it is.
C15_InsertByAddress ==
  (res # Null /\ res.op = "add_child") =>
    LET before == arg.state.fields
        after == res.state.fields
        p == res.parentPath
    IN IF ResolvesToObject(before, p)
       THEN LET n == Len(Reach(before, p).fields)
                new == Reach(after, p \o <<n>>)
            IN /\ NodePaths(after, <<>>) = NodePaths(before, <<>>) \cup {p \o <<n>>}
               /\ p \o <<n>> \notin NodePaths(before, <<>>)
               /\ \A q \in NodePaths(before, <<>>) : SameField(Reach(after, q), Reach(before, q))
               /\ new.name = <<>> /\ new.type = "str" /\ ~RequiredOf(new)
               /\ new.id \notin IdsOf(before)
       ELSE after = before

\* A child was added to an object that had one already
C15_Witness ==
  /\ res # Null /\ res.op = "add_child"
  /\ ResolvesToObject(arg.state.fields, res.parentPath)
  /\ Len(Reach(arg.state.fields, res.parentPath).fields) = 1
  /\ Len(Reach(res.state.fields, res.parentPath).fields) = 2

\* The gesture on a parentPath that leads to a field that is no object
C15_WitnessNonObject ==
  /\ res # Null /\ res.op = "add_child"
  /\ ValidPath(arg.state.fields, res.parentPath)
  /\ ~ResolvesToObject(arg.state.fields, res.parentPath)
  /\ res.state.fields = arg.state.fields

\* Where the node at path q is found once the node at path p is gone: a
\* later sibling of p, and what is below it, moves up by one
PathAfterDelete(q, p) ==
  IF /\ Len(q) >= Len(p)
     /\ SubSeq(q, 1, Len(p) - 1) = SubSeq(p, 1, Len(p) - 1)
     /\ q[Len(p)] > p[Len(p)]
  THEN [q EXCEPT ![Len(p)] = @ - 1]
  ELSE q

\* C16: a delete gesture whose path resolves removes the node at that path
\* and all that is below it, and nothing else: every other field keeps its
\* content, and its place but for the later siblings of the removed node,
\* which move up by one in the order they had.  A path that does not resolve
\* (last index out of range, or a parent that is no object) removes nothing.
C16_RemoveByAddress ==
  (res # Null /\ res.op = "delete") =>
    LET before == arg.state.fields
        after == res.state.fields
        p == res.path
    IN IF ValidPath(before, p)
       THEN LET kept == {q \in NodePaths(before, <<>>) : ~IsPrefix(p, q)}
            IN /\ NodePaths(after, <<>>) = {PathAfterDelete(q, p) : q \in kept}
               /\ \A q \in kept :
                    SameField(Reach(after, PathAfterDelete(q, p)), Reach(before, q))
               /\ Reach(before, p).id \notin IdsOf(after)
       ELSE after = before

\* An object with a child was removed, and the sibling after it moved up
C16_Witness ==
  /\ res # Null /\ res.op = "delete"
  /\ res.path = <<0>>
  /\ Len(arg.state.fields) = 2
  /\ arg.state.fields[1].type = "object"
  /\ Len(arg.state.fields[1].fields) = 1
  /\ Len(res.state.fields) = 1
  /\ res.state.fields[1].id = arg.state.fields[2].id

\* The gesture on a path whose parent is no object
C16_WitnessNoParent ==
  /\ res # Null /\ res.op = "delete"
  /\ Len(res.path) = 2
  /\ ValidPath(arg.state.fields, <<res.path[1]>>)
  /\ ~ValidPath(arg.state.fields, res.path)
  /\ res.state.fields = arg.state.fields

\* The number of children of the field with identity id in a tree
ChildCount(fields, id) ==
  LET f == FindById(fields, id) IN IF f = Null THEN 0 ELSE Len(ChildrenOf(f))

\* C28: of two mouse-downs handled with no draw in between, the second acts
\* on the field that was shown on the clicked row at the last draw: a delete
\* removes that field and what is below it and nothing else, an add-child
\* gives a child to that object and to no other.
C28_GestureActsOnShownField ==
  (res # Null /\ res.op = "second") =>
    LET before == res.before.fields
        after == res.state.fields
        shown == FindById(before, res.shown)
    IN /\ res.gesture = "delete" =>
            IdsOf(before) \ IdsOf(after) \subseteq (IF shown = Null THEN {} ELSE IdsOf(<<shown>>))
       /\ res.gesture = "add_child" =>
            /\ Len(after) = Len(before)
            /\ \A id \in IdsOf(before) \ {res.shown} : ChildCount(after, id) = ChildCount(before, id)

\* C25: commitState makes the state the node's editor state, writes the
\* schema_yaml widget from it, marks the canvas dirty, and gives the caller
\* the node's state object back; a later callback that commits what the
\* caller holds leaves the node's state what it was.
C25_CommitReturnsState ==
  /\ (res # Null /\ res.op = "commitState") =>
       /\ res.node.state = getState(arg.state)
       /\ res.node.yaml = dumpYamlish(buildDocFromState(res.node.state))
       /\ res.node.dirty
       /\ res.ret = res.node.state
  /\ (res # Null /\ res.op = "laterCommit") =>
       /\ res.node.state = res.before
       /\ res.ret = res.node.state

\* The save requests that wait for their answer
SaveRequests(p) == {q \in p : q.kind \in {"save", "saveas"}}

\* What the node shows of its state
Shown(s) == [schema_name |-> s.schema_name, fields |-> s.fields, validation |-> s.validation]

\* C24: Save As writes the state only when its request has succeeded: the
\* step that sends the request, the one that refuses an empty name and the
\* one that meets a failure leave schema_name, fields and validation as they
\* were, and after a refusal or a failure no request is waiting; the step
\* that meets the success leaves the requested name in the state.
C24_SaveAsCommitsOnSuccess ==
  [][/\ last'.op \in {"saveas_sent", "saveas_refused", "saveas_failed"} =>
          Shown(heap'[cur']) = Shown(heap[cur])
     /\ last'.op \in {"saveas_refused", "saveas_failed"} =>
          Cardinality(SaveRequests(pending')) <= Cardinality(SaveRequests(pending))
     /\ last'.op = "saveas_done" => heap'[cur'].schema_name = last'.name]_vars

C24_Witness ==
  /\ last.op = "saveas_done"
  /\ heap[cur].schema_name = <<"b">>
  /\ heap[cur].validation # Null

C24_WitnessFailed == last.op = "saveas_failed" /\ heap[cur].fields # <<>>

C24_WitnessRefused == last.op = "saveas_refused" /\ heap[cur].schema_name # <<>>

\* C27: a Save response changes neither the schema_name nor the fields the
\* node holds: what New or Load put there stays.
C27_SaveResponseKeepsDocument ==
  [][last'.op \in {"save_done", "save_failed"} =>
       /\ heap'[cur'].schema_name = heap[cur].schema_name
       /\ heap'[cur'].fields = heap[cur].fields]_vars

\* ------------------------------------------------------------------------
\* Properties of the page
\* ------------------------------------------------------------------------

\* C26: however often installMouseCaptureHook is called, the capture
\* listeners are registered on the canvas at most once; a call made while
\* the canvas is not there returns and registers nothing.
C26_HookInstalledOnce ==
  /\ page.registrations <= 1
  /\ page.registrations = 1 => page.installed /\ page.canvas
  /\ installMouseCaptureHook(installMouseCaptureHook(page)) = installMouseCaptureHook(page)
  /\ ~page.canvas => installMouseCaptureHook(page).registrations = 0

\* The hook was installed on a canvas
C26_Witness == page.installed /\ page.registrations = 1

\* The hook was called before there was a canvas
C26_WitnessNoCanvas == page.installed /\ ~page.canvas /\ page.registrations = 0

\* C29: the commit callback of an inline editor runs at most once, whatever
\* Enter, Escape and blur events the editor gets, the blur that follows the
\* removal of the focused element included.
C29_CommitAtMostOnce ==
  \A e \in 1..Len(page.editors) : Len(page.editors[e].commits) <= 1

\* The editor is off the page and the node no longer refers to it
Closed(e) == ~page'.editors[e].attached /\ page'.ref # e

\* C30: Escape ends an inline edit without a call of the commit callback;
\* Enter (with Ctrl or Cmd in the textarea) and blur end it with one call of
\* the callback with the editor's text; either way the overlay is removed
\* and the node's reference to it cleared.
C30_EscapeDiscardsEnterCommits ==
  [][\A e \in 1..Len(page.editors) :
       /\ (\E blurs \in BOOLEAN : KeyEscapeOn(e, blurs)) =>
            /\ page'.editors[e].commits = page.editors[e].commits
            /\ Closed(e)
       /\ ((\E blurs \in BOOLEAN : KeyEnterOn(e, page.editors[e].kind = "textarea", blurs))
             \/ BlurOn(e)) =>
            /\ page'.editors[e].commits = Append(page.editors[e].commits, page.editors[e].text)
            /\ Closed(e)]_vars

\* The overlays on the page
Overlays(p) == {e \in 1..Len(p.editors) : p.editors[e].attached}

\* C31: a node has at most one inline editor overlay, and it is the one the
\* node refers to; the node's reference to an editor goes away only as that
\* editor's overlay leaves the page, never through the finish of another.
C31_OneOverlayPerNode ==
  /\ [](/\ Cardinality(Overlays(page)) <= 1
        /\ \A e \in Overlays(page) : page.ref = e)
  /\ [][(page.ref # 0 /\ page'.ref # page.ref) => ~page'.editors[page.ref].attached]_vars

\* A second editor was opened over a first
C31_Witness ==
  /\ Len(page.editors) = 2
  /\ page.ref = 2
  /\ Overlays(page) = {2}
  /\ last.op = "begin"

\* C32: when a gesture handler or a commit callback has changed the
\* document of the node (its schema name or its field tree), the schema_yaml
\* widget holds the text dump of the document built from the node's state.
C32_WidgetConsistent ==
  [][buildDocFromState(heap'[cur']) # buildDocFromState(heap[cur]) =>
       page'.yaml = dumpYamlish(buildDocFromState(heap'[cur']))]_vars

\* A field was given a name and the widget shows it
C32_Witness ==
  /\ page.widget
  /\ heap[cur].fields # <<>>
  /\ heap[cur].fields[1].name # <<>>
  /\ page.yaml = dumpYamlish(buildDocFromState(heap[cur]))

\* C33: the path of every field row of flattenRows resolves, with
\* getFieldByPath, to the row's field; the parentPath of every add_child row
\* resolves, with getFieldsListAtPath, to the children of the expanded
\* object whose row has that path.
C33_FlattenerResolverAgree ==
  (res # Null /\ res.op = "flattenRows") =>
    \A k \in 1..Len(res.rows) :
      IF res.rows[k].kind = "field"
      THEN getFieldByPath(arg.state, res.rows[k].path) = res.rows[k].field
      ELSE LET l == getFieldsListAtPath(arg.state, res.rows[k].parentPath)
           IN /\ l # Null
              /\ l.owner = "field"
              /\ \E o \in 1..Len(res.rows) :
                   /\ res.rows[o].kind = "field"
                   /\ res.rows[o].path = res.rows[k].parentPath
                   /\ res.rows[o].field.id = l.id
                   /\ res.rows[o].field.expanded
                   /\ res.rows[o].field.fields = l.list

\* An expanded object with a child: a field row two levels down and the
\* add_child row of the object
C33_Witness ==
  /\ res # Null /\ res.op = "flattenRows"
  /\ \E k \in 1..Len(res.rows) : res.rows[k].kind = "field" /\ Len(res.rows[k].path) = 2
  /\ \E k \in 1..Len(res.rows) :
       /\ res.rows[k].kind = "add_child"
       /\ getFieldsListAtPath(arg.state, res.rows[k].parentPath).list # <<>>

C34_WitnessFailed == last.op = "save_failed" /\ heap[cur].validation # Null

C34_WitnessRefused == last.op = "save_refused" /\ heap[cur].fields # <<>>

\* C35: a list request or a document request of Load that fails leaves the
\* state of the editor as it is; the document that arrives replaces it:
\* schema_name is the document's name, the fields are the decode of the
\* document's fields and no others, validation is null and scroll_row is 0.
C35_LoadReplacesOrKeeps ==
  [][/\ RequestFails =>
          /\ Shown(heap'[cur']) = Shown(heap[cur])
          /\ heap'[cur'].scroll_row = heap[cur].scroll_row
     /\ LoadDocArrives =>
          \E q \in pending :
            /\ q.kind = "load_doc"
            /\ heap'[cur'].schema_name = KnownSchemas[q.doc].doc.schema.name
            /\ Renamed(heap'[cur'].fields, <<>>)
                 = Renamed(docFieldsToStateList(KnownSchemas[q.doc].doc.schema.fields), <<>>)
            /\ heap'[cur'].validation = Null
            /\ heap'[cur'].scroll_row = 0]_vars

\* The document of the backend was loaded: an object that holds one field
C35_Witness ==
  /\ heap[cur].schema_name = <<"a">>
  /\ Len(heap[cur].fields) = 1
  /\ heap[cur].fields[1].type = "object"
  /\ Len(heap[cur].fields[1].fields) = 1
  /\ heap[cur].validation = Null
  /\ pending = {}

\* C36: after a draw scroll_row is between 0 and max(0, totalRows - maxRows)
\* and the rows shown are an unbroken run of at most maxRows rows of the
\* list, from row scroll_row when the list scrolls; a wheel event moves
\* scroll_row by at most one and leaves it between 0 and the maxScrollRow
\* of the last draw.
C36_ScrollBounds ==
  /\ (res # Null /\ res.op = "draw") =>
       /\ res.scroll_row >= 0
       /\ res.scroll_row <= (IF res.totalRows - res.maxRows > 0
                             THEN res.totalRows - res.maxRows ELSE 0)
       /\ Cardinality(res.shown) <= res.maxRows
       /\ res.shown \subseteq 0..(res.totalRows - 1)
       /\ \A i, j \in res.shown : \A k \in i..j : k \in res.shown
       /\ (res.shown # {} /\ res.maxScrollRow > 0) => res.scroll_row \in res.shown
  /\ (res # Null /\ res.op = "wheel") =>
       /\ res.scroll_row - res.before \in {-1, 0, 1}
       /\ res.scroll_row >= 0
       /\ res.scroll_row <= res.maxScrollRow

\* The wheel moved a list that scrolls
C36_Witness ==
  /\ res # Null /\ res.op = "wheel"
  /\ res.maxScrollRow >= 2
  /\ res.scroll_row = res.before + 1

\* A draw pulled a stored scroll_row back
C36_WitnessClamped ==
  /\ res # Null /\ res.op = "draw"
  /\ res.before > res.scroll_row
  /\ res.scroll_row > 0

\* C37: a call of getSchemasCached sends no request when the node holds a
\* list whose fetch succeeded less than ten seconds before the call, and
\* one request otherwise; a fetch that failed leaves the cache entry as it
\* was.
C37_SchemaListCache ==
  [][/\ res'.op = "call" =>
          res'.requests = (IF res.cache # Null /\ res.now - res.cache.arrived < CacheTtl
                           THEN 0 ELSE 1)
     /\ res'.op = "threw" => res'.cache = res.cache]_vars

\* C38: a call of installMouseCaptureHook made when the canvas is there
\* and no listeners are registered on it registers them, a call made
\* before the canvas was there notwithstanding.
C38_HookInstalledLater ==
  [][(last'.op = "install" /\ page.canvas /\ page.registrations = 0)
       => page'.registrations = 1]_vars

====
